---- MODULE Spec2Model ----
(***************************************************************************)
(* A model of the finding-synthesis core of shield-pr: the similarity      *)
(* predicate, deduplication and prioritisation of SynthesisChain, the      *)
(* stage runner of BaseReviewChain and the per-file loop and aggregation   *)
(* of ReviewPipeline.                                                      *)
(*                                                                         *)
(* Python strings are tuples of one-character strings, so that ordering    *)
(* and difflib's matching are computed and not assumed.  An optional       *)
(* integer is <<>> (None) or <<n>>.  A confidence is a whole number of     *)
(* hundredths.                                                             *)
(***************************************************************************)
EXTENDS Integers, Sequences, FiniteSets, TLC

-----------------------------------------------------------------------------
(* Bounds of the model.                                                    *)

\* longest finding list handed to _deduplicate / _prioritize
MaxLen == 3
\* longest file_paths list (file_changes mapping) handed to the pipeline
MaxFiles == 3

\* _aggregate_results on its own: at most this many findings, and at most
\* this many files
MaxFindings == 8
MaxCount == 4
\* pieces of a stage output the three-tier parser is given
MaxPieces == 5
\* steps between confidence 0 and confidence 1 of a detection signal
MaxLevel == 4
\* file sections of a diff
MaxSections == 2

-----------------------------------------------------------------------------
(* Strings.                                                                *)

\* Unicode code points of the characters the model's strings use.
ord ==
    ( "." :> 46 @@ "_" :> 95 @@ "a" :> 97 @@ "b" :> 98 @@ "c" :> 99 @@
      "d" :> 100 @@ "e" :> 101 @@ "f" :> 102 @@ "g" :> 103 @@ "h" :> 104 @@
      "i" :> 105 @@ "k" :> 107 @@ "n" :> 110 @@ "r" :> 114 @@ "s" :> 115 @@
      "t" :> 116 @@ "u" :> 117 @@ "v" :> 118 @@ "w" :> 119 @@ "x" :> 120 @@
      "y" :> 121 )

Min(x, y) == IF x <= y THEN x ELSE y

\* s < t for Python str: the first differing character decides, a proper
\* prefix is smaller.
StrLess(s, t) ==
    \E k \in 1..(Min(Len(s), Len(t)) + 1) :
        /\ \A i \in 1..(k - 1) : s[i] = t[i]
        /\ \/ k = Len(s) + 1 /\ k <= Len(t)
           \/ k <= Len(s) /\ k <= Len(t) /\ ord[s[k]] < ord[t[k]]

-----------------------------------------------------------------------------
(* difflib.SequenceMatcher(None, a, b).ratio(), no junk, strings far below *)
(* the 200 characters at which the popularity heuristic starts.            *)

\* every matching block a[i..i+k-1] = b[j..j+k-1] inside a[alo..ahi-1],
\* b[blo..bhi-1]
MatchingBlocks(a, b, alo, ahi, blo, bhi) ==
    { m \in (alo..(ahi - 1)) \X (blo..(bhi - 1)) \X (1..Len(a)) :
        /\ m[1] + m[3] <= ahi
        /\ m[2] + m[3] <= bhi
        /\ \A t \in 0..(m[3] - 1) : a[m[1] + t] = b[m[2] + t] }

\* find_longest_match: a longest block; of those the one that starts
\* earliest in a; of those the one that starts earliest in b.
find_longest_match(a, b, alo, ahi, blo, bhi) ==
    LET blocks == MatchingBlocks(a, b, alo, ahi, blo, bhi)
    IN  IF blocks = {} THEN <<alo, blo, 0>>
        ELSE CHOOSE m \in blocks :
                \A o \in blocks :
                    \/ m[3] > o[3]
                    \/ m[3] = o[3] /\ m[1] < o[1]
                    \/ m[3] = o[3] /\ m[1] = o[1] /\ m[2] <= o[2]

\* get_matching_blocks: the longest block, then the same to its left and to
\* its right; the value is the total size of the blocks.
RECURSIVE matches(_, _, _, _, _, _)
matches(a, b, alo, ahi, blo, bhi) ==
    LET m == find_longest_match(a, b, alo, ahi, blo, bhi)
        i == m[1]
        j == m[2]
        k == m[3]
    IN  IF k = 0 THEN 0
        ELSE k
             + (IF alo < i /\ blo < j THEN matches(a, b, alo, i, blo, j) ELSE 0)
             + (IF i + k < ahi /\ j + k < bhi
                THEN matches(a, b, i + k, ahi, j + k, bhi) ELSE 0)

\* ratio() = 2.0 * matches / (len(a) + len(b)), 1.0 for two empty strings;
\* the value is the pair <<numerator, denominator>>.
ratio(a, b) ==
    IF Len(a) + Len(b) = 0 THEN <<1, 1>>
    ELSE <<2 * matches(a, b, 1, Len(a) + 1, 1, Len(b) + 1), Len(a) + Len(b)>>

-----------------------------------------------------------------------------
(* Finding and ReviewResult.                                               *)

SEVERITY_ORDER == [HIGH |-> 0, MEDIUM |-> 1, LOW |-> 2]

Severities == {"HIGH", "MEDIUM", "LOW"}

\* line_number: int | None
None == <<>>

bug == <<"b", "u", "g">>
security == <<"s", "e", "c", "u", "r", "i", "t", "y">>
review == <<"r", "e", "v", "i", "e", "w">>

a_kt == <<"a", ".", "k", "t">>
b_swift == <<"b", ".", "s", "w", "i", "f", "t">>
n_txt == <<"n", ".", "t", "x", "t">>

\* Descriptions.  ratio(aaabaa, baaaaa) = 10/12 and ratio(baaaaa, aaabaa) =
\* 6/12: difflib's ratio depends on the order of its arguments.  bbb is
\* unlike both, in both orders.
aaabaa == <<"a", "a", "a", "b", "a", "a">>
baaaaa == <<"b", "a", "a", "a", "a", "a">>
bbb == <<"b", "b", "b">>

Finding(sev, cat, path, line, desc) ==
    [severity |-> sev, category |-> cat, file_path |-> path,
     line_number |-> line, description |-> desc]

\* Findings of every shape _are_similar tells apart.  Line 0 is a value
\* ResultParser._extract_line_number returns for the text "line 0".
Findings ==
    { Finding(sev, cat, path, line, desc) :
        sev \in Severities, cat \in {bug, security}, path \in {a_kt, b_swift},
        line \in {None, <<0>>, <<10>>, <<15>>, <<20>>},
        desc \in {aaabaa, baaaaa, bbb} }

\* Findings of one category and one file, near one another: the ones a scan
\* over a longer list merges.
SameLocationFindings ==
    { f \in Findings :
        /\ f.severity \in {"HIGH", "LOW"}
        /\ f.category = bug
        /\ f.file_path = a_kt
        /\ f.line_number \in {<<10>>, <<15>>, <<20>>}
        /\ f.description # bbb }

ListsUpTo(S, n) == UNION { [1..k -> S] : k \in 0..n }

-----------------------------------------------------------------------------
(* SynthesisChain.                                                         *)

\* Python's truth value of an optional integer: None and 0 are false.
Truthy(line) == line # None /\ line[1] # 0

Abs(x) == IF x < 0 THEN 0 - x ELSE x

_are_similar(finding1, finding2) ==
    IF finding1.category # finding2.category THEN FALSE
    ELSE IF finding1.file_path # finding2.file_path THEN FALSE
    ELSE LET desc_similarity == ratio(finding1.description, finding2.description)
         IN  \* desc_similarity > 0.8
             IF 10 * desc_similarity[1] > 8 * desc_similarity[2] THEN TRUE
             ELSE IF /\ Truthy(finding1.line_number)
                     /\ Truthy(finding2.line_number)
                     /\ Abs(finding1.line_number[1] - finding2.line_number[1]) <= 5
                  THEN TRUE
                  ELSE FALSE

\* list.index(x): the first position holding a value equal to x
index(list, x) == CHOOSE i \in 1..Len(list) :
                     /\ list[i] = x
                     /\ \A j \in 1..(i - 1) : list[j] # x

\* The loop body keeping the finding seen first, whatever the severities
DedupIterationKeepingFirst(lists, finding) ==
    IF \E k \in 1..Len(lists.seen) : _are_similar(finding, lists.seen[k])
    THEN lists
    ELSE [deduplicated |-> Append(lists.deduplicated, finding),
          seen |-> Append(lists.seen, finding)]

DedupIterationMerging(lists, finding) ==
    LET similar == { k \in 1..Len(lists.seen) : _are_similar(finding, lists.seen[k]) }
    IN  IF similar = {}
        THEN [deduplicated |-> Append(lists.deduplicated, finding),
              seen |-> Append(lists.seen, finding)]
        ELSE LET first == CHOOSE k \in similar : \A o \in similar : k <= o
                 seen_finding == lists.seen[first]
                 merged == [seen_finding EXCEPT !.severity = finding.severity]
             IN  IF SEVERITY_ORDER[finding.severity] < SEVERITY_ORDER[seen_finding.severity]
                 THEN [deduplicated |->
                          [lists.deduplicated EXCEPT
                              ![index(lists.deduplicated, seen_finding)] = merged],
                       seen |->
                          [lists.seen EXCEPT ![index(lists.seen, seen_finding)] = merged]]
                 ELSE lists

\* One iteration of the for loop of _deduplicate over the pair of lists
\* (deduplicated, seen).
DedupIteration(lists, finding) ==
    LET similar == { k \in 1..Len(lists.seen) : _are_similar(finding, lists.seen[k]) }
    IN  IF similar = {}
        THEN [deduplicated |-> Append(lists.deduplicated, finding),
              seen |-> Append(lists.seen, finding)]
        ELSE LET first == CHOOSE k \in similar : \A o \in similar : k <= o
                 seen_finding == lists.seen[first]
             IN  IF SEVERITY_ORDER[finding.severity] < SEVERITY_ORDER[seen_finding.severity]
                 THEN [deduplicated |->
                          [lists.deduplicated EXCEPT
                              ![index(lists.deduplicated, seen_finding)] = finding],
                       seen |->
                          [lists.seen EXCEPT ![index(lists.seen, seen_finding)] = finding]]
                 ELSE lists

RECURSIVE DedupLoop(_, _)
DedupLoop(lists, findings) ==
    IF findings = <<>> THEN lists
    ELSE DedupLoop(DedupIteration(lists, Head(findings)), Tail(findings))

_deduplicate(findings) ==
    IF findings = <<>> THEN <<>>
    ELSE DedupLoop([deduplicated |-> <<>>, seen |-> <<>>], findings).deduplicated

\* The sort key (SEVERITY_ORDER[f.severity], f.category, f.file_path) of f is
\* smaller than that of g: tuples compare on their first differing component.
KeyLess(f, g) ==
    \/ SEVERITY_ORDER[f.severity] < SEVERITY_ORDER[g.severity]
    \/ /\ f.severity = g.severity
       /\ \/ StrLess(f.category, g.category)
          \/ f.category = g.category /\ StrLess(f.file_path, g.file_path)

InsertSortedFront(sorted, f) ==
    LET p == Cardinality({ i \in 1..Len(sorted) : KeyLess(sorted[i], f) })
    IN  SubSeq(sorted, 1, p) \o <<f>> \o SubSeq(sorted, p + 1, Len(sorted))

\* sorted() is stable: an item goes behind every item whose key is not
\* larger than its own.
InsertSorted(sorted, f) ==
    LET p == Cardinality({ i \in 1..Len(sorted) : ~KeyLess(f, sorted[i]) })
    IN  SubSeq(sorted, 1, p) \o <<f>> \o SubSeq(sorted, p + 1, Len(sorted))

RECURSIVE SortedInto(_, _)
SortedInto(sorted, findings) ==
    IF findings = <<>> THEN sorted
    ELSE SortedInto(InsertSorted(sorted, Head(findings)), Tail(findings))

_prioritize(findings) == SortedInto(<<>>, findings)

ReviewResult(platform, findings, confidence) ==
    [platform |-> platform, findings |-> findings, confidence |-> confidence]

synthesize_universal_confidence(platform_result, universal_result) ==
    ReviewResult(
        platform_result.platform,
        _prioritize(_deduplicate(platform_result.findings \o universal_result.findings)),
        universal_result.confidence)

synthesize(platform_result, universal_result) ==
    ReviewResult(
        platform_result.platform,
        \* all_findings = platform_result.findings + universal_result.findings,
        \* deduplicated, prioritized
        _prioritize(_deduplicate(platform_result.findings \o universal_result.findings)),
        \* confidence
        Min(platform_result.confidence, universal_result.confidence))

-----------------------------------------------------------------------------
(* Platform detection: the part of PlatformDetector the pipeline reads.    *)
(* A detection confidence is a whole number of ten-thousandths.            *)

\* EXTENSION_WEIGHTS, each entry in the order the dict literal lists it
EXTENSION_WEIGHTS ==
    ( <<".", "k", "t">> :> << <<"android", 10000>> >> @@
      <<".", "s", "w", "i", "f", "t">> :> << <<"ios", 10000>> >> @@
      <<".", "m">> :> << <<"ios", 9000>> >> @@
      <<".", "h">> :> << <<"ios", 7000>> >> @@
      <<".", "t", "s", "x">> :> << <<"frontend", 9000>> >> @@
      <<".", "j", "s", "x">> :> << <<"frontend", 9000>> >> @@
      <<".", "v", "u", "e">> :> << <<"frontend", 10000>> >> @@
      <<".", "s", "v", "e", "l", "t", "e">> :> << <<"frontend", 10000>> >> @@
      <<".", "g", "o">> :> << <<"backend", 9000>> >> @@
      <<".", "r", "s">> :> << <<"backend", 9000>> >> @@
      <<".", "i", "p", "y", "n", "b">> :> << <<"ai-ml", 9500>> >> @@
      <<".", "p", "y">> :> << <<"backend", 3000>>, <<"ai-ml", 3000>> >> @@
      <<".", "j", "s">> :> << <<"frontend", 4000>>, <<"backend", 4000>> >> @@
      <<".", "t", "s">> :> << <<"frontend", 4000>>, <<"backend", 4000>> >> @@
      <<".", "j", "a", "v", "a">> :> << <<"android", 6000>>, <<"backend", 3000>> >> @@
      <<".", "x", "m", "l">> :> << <<"android", 5000>> >> )

g_kt == <<"g", ".", "k", "t">>

\* n.txt has an extension the table does not know; g.kt cannot be read.
Files == {a_kt, b_swift, n_txt, g_kt}

\* The files a diff names: review_diff reads none of them from disk
DiffFiles == {a_kt, b_swift, n_txt}

\* File names for every extension of the table, one the table lacks and
\* none; the first character tells what the disk holds under the name
DetectFiles ==
    { <<stem>> \o ext :
        stem \in {"i", "s", "k", "e", "u"},
        ext \in DOMAIN EXTENSION_WEIGHTS \cup { <<".", "t", "x", "t">>, <<>> } }

\* g.kt and the names starting with "u" cannot be read
Unreadable == {g_kt} \cup { file_path \in DetectFiles : file_path[1] = "u" }

\* PLATFORM_PATTERNS.keys()
Platforms == {"android", "ios", "ai-ml", "frontend", "backend"}

is_valid_platform(platform) == platform \in Platforms

\* Path(file_path).suffix of a path that is a bare file name: from the last
\* dot, unless the name starts or ends with it.
suffix(file_path) ==
    LET dots == { k \in 1..Len(file_path) : file_path[k] = "." }
    IN  IF dots = {} THEN <<>>
        ELSE LET last == CHOOSE k \in dots : \A o \in dots : o <= k
             IN  IF last = 1 \/ last = Len(file_path) THEN <<>>
                 ELSE SubSeq(file_path, last, Len(file_path))

\* str.lower() over the characters of the model's file names
lower(s) ==
    [k \in 1..Len(s) |->
        IF s[k] = "K" THEN "k" ELSE IF s[k] = "T" THEN "t" ELSE s[k]]

\* max(weights.items(), key=weight): the first entry of the largest weight
FirstMax(weights) ==
    weights[CHOOSE k \in 1..Len(weights) :
                /\ \A o \in 1..Len(weights) : weights[o][2] <= weights[k][2]
                /\ \A o \in 1..(k - 1) : weights[o][2] < weights[k][2]]

\* detect_by_extension taking the last entry of the extension's map
last_entry(file_path) ==
    LET ext == lower(suffix(file_path))
    IN  IF ext = <<>> THEN <<None, 0>>
        ELSE IF ext \notin DOMAIN EXTENSION_WEIGHTS THEN <<None, 0>>
        ELSE LET weights == EXTENSION_WEIGHTS[ext]
             IN  << <<weights[Len(weights)][1]>>, weights[Len(weights)][2] >>

\* (platform, confidence); platform is None or <<name>>
detect_by_extension(file_path) ==
    LET ext == lower(suffix(file_path))
    IN  IF ext = <<>> THEN <<None, 0>>
        ELSE IF ext \notin DOMAIN EXTENSION_WEIGHTS THEN <<None, 0>>
        ELSE LET weights == EXTENSION_WEIGHTS[ext]
             IN  IF Len(weights) = 1
                 THEN << <<weights[1][1]>>, weights[1][2] >>
                 ELSE << <<FirstMax(weights)[1]>>, FirstMax(weights)[2] >>

tie_to_extension(ext_platform, ext_confidence, content_platform, content_confidence) ==
    IF ext_platform = None /\ content_platform = None THEN <<None, 0>>
    ELSE IF ext_platform # None /\ content_platform = None
         THEN <<ext_platform, ext_confidence>>
    ELSE IF content_platform # None /\ ext_platform = None
         THEN <<content_platform, content_confidence>>
    ELSE IF ext_platform = content_platform
         THEN <<ext_platform,
                Min(ext_confidence + (3 * content_confidence) \div 10, 10000)>>
    ELSE IF ext_confidence >= content_confidence
         THEN <<ext_platform, ext_confidence>>
         ELSE <<content_platform, content_confidence>>

\* (final_platform, final_confidence); the reasoning text is left out
calculate_confidence(ext_platform, ext_confidence, content_platform, content_confidence) ==
    IF ext_platform = None /\ content_platform = None THEN <<None, 0>>
    ELSE IF ext_platform # None /\ content_platform = None
         THEN <<ext_platform, ext_confidence>>
    ELSE IF content_platform # None /\ ext_platform = None
         THEN <<content_platform, content_confidence>>
    ELSE IF ext_platform = content_platform
         \* min(ext_confidence + content_confidence * 0.3, 1.0)
         THEN <<ext_platform,
                Min(ext_confidence + (3 * content_confidence) \div 10, 10000)>>
    ELSE IF ext_confidence > content_confidence
         THEN <<ext_platform, ext_confidence>>
         ELSE <<content_platform, content_confidence>>

\* Lines of text
import_uikit == "import UIKit"
import_swiftui == "import SwiftUI"
import_foundation == "import Foundation"
import_android == "import android.os.Bundle"
plain_line == "int x;"
podfile_line == "see Podfile"

\* The platforms whose IMPORT_PATTERNS entry matches the line
ImportMatches(line) ==
    IF line \in {import_uikit, import_swiftui, import_foundation} THEN {"ios"}
    ELSE IF line = import_android THEN {"android"}
    ELSE {}

\* What the KEYWORD_PATTERNS entry of a platform finds in the line
KeywordMatches(line, platform) ==
    IF platform = "ios" /\ line = import_uikit THEN {"UIKit"}
    ELSE IF platform = "ios" /\ line = import_swiftui THEN {"SwiftUI"}
    ELSE IF platform = "ios" /\ line = import_foundation THEN {"Foundation"}
    ELSE IF platform = "android" /\ line = import_android THEN {"android"}
    ELSE {}

\* The "files" of the platform's PLATFORM_PATTERNS entry the line names
ConfigMentions(line, platform) ==
    IF platform = "ios" /\ line = podfile_line THEN {"Podfile"} ELSE {}

\* _analyze_imports, _analyze_keywords, _analyze_config_mentions: the score
\* of one platform, 0 for a platform that gets no entry
ImportScore(content, platform) ==
    Min(2000 * Cardinality({ k \in DOMAIN content : platform \in ImportMatches(content[k]) }),
        10000)

KeywordScore(content, platform) ==
    Min(1500 * Cardinality(UNION { KeywordMatches(content[k], platform) : k \in DOMAIN content }),
        10000)

ConfigScore(content, platform) ==
    Min(3000 * Cardinality(UNION { ConfigMentions(content[k], platform) : k \in DOMAIN content }),
        10000)

\* the order in which the dicts of patterns list the platforms
PlatformOrder == <<"android", "ios", "ai-ml", "frontend", "backend">>

\* FileAnalyzer.detect_by_content.  content is the list of the lines of the
\* text; the scores dict as the list of its items, in insertion order.
detect_by_content(content) ==
    LET limited == SubSeq(content, 1, Min(Len(content), 500))
        total(q) == (4 * ImportScore(limited, q) + 4 * KeywordScore(limited, q)
                        + 2 * ConfigScore(limited, q)) \div 10
        byImport(q) == ImportScore(limited, q) > 0
        byKeyword(q) == ~byImport(q) /\ KeywordScore(limited, q) > 0
        byConfig(q) == ~byImport(q) /\ ~byKeyword(q) /\ ConfigScore(limited, q) > 0
        keys == SelectSeq(PlatformOrder, byImport) \o SelectSeq(PlatformOrder, byKeyword)
                    \o SelectSeq(PlatformOrder, byConfig)
        scores == [k \in DOMAIN keys |-> <<keys[k], total(keys[k])>>]
    IN  IF content = <<>> \/ scores = <<>> THEN <<None, 0>>
        ELSE << <<FirstMax(scores)[1]>>, Min(FirstMax(scores)[2], 10000) >>

\* Texts: one ios import; five ios imports and a config file; one android
\* import; no signal
weak_ios == <<import_uikit>>
strong_ios ==
    <<import_uikit, import_swiftui, import_foundation, import_uikit, import_uikit,
      podfile_line>>
weak_android == <<import_android, plain_line>>
no_signal == <<plain_line>>

\* Path(file_path).read_text(...) of a file that can be read
FileText(file_path) ==
    IF file_path \in DetectFiles /\ file_path[1] = "i" THEN weak_ios
    ELSE IF file_path \in DetectFiles /\ file_path[1] = "s" THEN strong_ios
    ELSE IF file_path \in DetectFiles /\ file_path[1] = "k" THEN weak_android
    ELSE no_signal

\* The content branch of PlatformDetector.detect: (content_platform,
\* content_confidence) as they stand before calculate_confidence is called
content_detection(file_path, content, ext_confidence) ==
    IF content # None /\ content[1] # <<>>
    THEN detect_by_content(content[1])
    ELSE IF ext_confidence < 8000 /\ file_path \notin Unreadable
         THEN detect_by_content(FileText(file_path))
         ELSE <<None, 0>>

detect_reads_every_file(file_path, content, manual_platform) ==
    IF manual_platform # None /\ is_valid_platform(manual_platform[1])
    THEN <<manual_platform, 10000>>
    ELSE LET ext == detect_by_extension(file_path)
             signal == IF content # None /\ content[1] # <<>>
                       THEN detect_by_content(content[1])
                       ELSE IF file_path \notin Unreadable
                            THEN detect_by_content(FileText(file_path))
                            ELSE <<None, 0>>
         IN  calculate_confidence(ext[1], ext[2], signal[1], signal[2])

\* detect taking every manual_platform it is given, recognized or not
detect_trusts_manual(file_path, content, manual_platform) ==
    IF manual_platform # None
    THEN <<manual_platform, 10000>>
    ELSE LET ext == detect_by_extension(file_path)
             signal == content_detection(file_path, content, ext[2])
         IN  calculate_confidence(ext[1], ext[2], signal[1], signal[2])

\* PlatformDetector.detect.  content is None or <<text>>; without a text
\* that is not empty the file is read from disk when the extension is
\* ambiguous, and a failed read is swallowed.
detect(file_path, content, manual_platform) ==
    IF manual_platform # None /\ is_valid_platform(manual_platform[1])
    THEN <<manual_platform, 10000>>
    ELSE LET ext == detect_by_extension(file_path)
             signal == content_detection(file_path, content, ext[2])
         IN  calculate_confidence(ext[1], ext[2], signal[1], signal[2])

-----------------------------------------------------------------------------
(* The files, and what the review chains may answer for them.              *)

\* FileReader.read_file: None for a file that cannot be read
Readable(file_path) == file_path \notin Unreadable

\* ReviewError(f"Chain execution failed: {e}") as BaseReviewChain.execute
\* raises it; fixed texts are written as one element.
ChainFailed == <<"Chain execution failed: ", "e">>

\* What a platform chain may return for a file: the parser gives every
\* finding the file's own path and always gives at least one finding; the
\* confidence (hundredths) is one ResultParser.calculate_confidence yields.
PlatformResults(platform, file_path) ==
    { ReviewResult(platform,
         << Finding("HIGH", security, file_path, None, aaabaa) >>, 25),
      ReviewResult(platform,
         << Finding("LOW", bug, file_path, <<10>>, bbb) >>, 100),
      ReviewResult(platform,
         << Finding("LOW", bug, file_path, <<10>>, bbb),
            Finding("HIGH", bug, file_path, <<20>>, aaabaa) >>, 75) }

\* What the universal chain may return for a file
UniversalResults(file_path) ==
    { ReviewResult("universal",
         << Finding("MEDIUM", bug, file_path, <<15>>, baaaaa) >>, 50),
      ReviewResult("universal",
         << Finding("HIGH", security, file_path, None, baaaaa) >>, 55) }

-----------------------------------------------------------------------------
(* ReviewPipeline: the pure parts.                                         *)

\* f"Could not review file: {error}"
_create_error_finding(file_path, error) ==
    [severity |-> "LOW", category |-> review, file_path |-> file_path,
     line_number |-> None,
     description |-> <<"Could not review file: ">> \o error]

round2_truncated(num, den) == (100 * num) \div den

\* round(x, 2) of x = num / den >= 0, in hundredths: to the nearest, a tie
\* to the even one.  (n / f / 2 is a tie only on an odd eighth, which a float
\* holds exactly, as long as f < 20.)
round2(num, den) ==
    LET q == (100 * num) \div den
        r == (100 * num) % den
    IN  IF 2 * r > den THEN q + 1
        ELSE IF 2 * r = den THEN q + (q % 2)
        ELSE q

_calculate_aggregate_confidence(findings, files_count) ==
    IF findings = <<>> \/ files_count = 0 THEN 50
    ELSE \* base = min(len(findings) / files_count / 2, 1.0)
         IF Len(findings) >= 2 * files_count THEN round2(1, 1)
         ELSE round2(Len(findings), 2 * files_count)

\* platforms is the list Python makes of the set of platforms found
_aggregate_results(findings, platforms, files_count) ==
    LET prioritized == _prioritize(findings)
        confidence == _calculate_aggregate_confidence(findings, files_count)
        primary_platform == IF platforms # <<>> THEN platforms[1] ELSE "unknown"
    IN  ReviewResult(primary_platform, prioritized, confidence)

\* list(a_set): the hash seed of the run decides the order
ListsOf(set) ==
    { l \in [1..Cardinality(set) -> set] : \A x \in set : \E k \in DOMAIN l : l[k] = x }

\* The keys of the dict read_files fills, in the order of first insertion
RECURSIVE Keys(_)
Keys(paths) ==
    IF paths = <<>> THEN <<>>
    ELSE LET front == Keys(SubSeq(paths, 1, Len(paths) - 1))
             last == paths[Len(paths)]
         IN  IF \E k \in DOMAIN front : front[k] = last THEN front
             ELSE Append(front, last)

-----------------------------------------------------------------------------
(* BaseReviewChain, its subclasses and the ResultParser it holds.  A text  *)
(* is written as one element; "" is the empty tuple.                       *)

\* The classes of CHAIN_REGISTRY and UniversalReviewChain, by self.platform
ChainTypes == {"android", "ios", "ai-ml", "frontend", "backend", "universal"}

\* "thorough" stands for every depth the table does not know
Depths == {"quick", "standard", "deep", "thorough"}

DEPTH_STAGES ==
    [quick |-> <<"architecture", "improvements">>,
     standard |-> <<"architecture", "platform_issues", "tests", "improvements">>,
     deep |-> <<"architecture", "platform_issues", "tests", "improvements",
                "security_audit", "performance">>]

\* dict.get(key, default)
Get(dict, key, default) == IF key \in DOMAIN dict THEN dict[key] ELSE default

Range(seq) == { seq[k] : k \in DOMAIN seq }

\* The keys of the dict _build_stages returns
_build_stages(chain_type) ==
    IF chain_type = "universal"
    THEN <<"security", "readability", "best_practices">>
    ELSE <<"architecture", "platform_issues", "tests", "improvements">>

\* BaseReviewChain._select_stages_by_depth and the override of
\* UniversalReviewChain
_select_stages_by_depth(chain_type, depth) ==
    IF chain_type = "universal"
    THEN IF depth = "quick" THEN <<"security">>
         ELSE IF depth = "standard" THEN <<"security", "readability">>
         ELSE <<"security", "readability", "best_practices">>
    ELSE Get(DEPTH_STAGES, depth, DEPTH_STAGES["standard"])

\* f"{stage_name}_result"
ResultKey(stage_name) == <<stage_name, "_result">>

\* context[key] = value on a dict kept as the list of its items
SetItem(dict, key, value) ==
    IF \E k \in DOMAIN dict : dict[k][1] = key
    THEN [k \in DOMAIN dict |-> IF dict[k][1] = key THEN <<key, value>> ELSE dict[k]]
    ELSE Append(dict, <<key, value>>)

no_text == <<>>
plain_text == <<"x">>
high_text == <<"HIGH line 10">>

\* What stage.invoke may return: a dict with the text under "text", or, as
\* an LLMChain built with output_key does, under "<stage_name>_result".
StageOutputs(stage_name) ==
    { <<"text">> :> plain_text,
      <<"text">> :> high_text,
      ResultKey(stage_name) :> plain_text }

\* What stage.invoke may raise, by str(e)
Exceptions == { <<"e">>, <<"rate limit">> }

_split_into_segments(text) == IF text = no_text THEN <<>> ELSE <<text>>

_extract_severity(text) == IF text = high_text THEN "HIGH" ELSE "LOW"

\* No text here names a category: stage_name.replace("_result", "")
\* .replace("_", " ").lower()
_extract_category(text, stage_name) ==
    IF stage_name[1] = "platform_issues" THEN <<"platform issues">>
    ELSE IF stage_name[1] = "best_practices" THEN <<"best practices">>
    ELSE <<stage_name[1]>>

_extract_line_number(text) == IF text = high_text THEN <<10>> ELSE None

_parse_finding_segment(segment, stage_name, file_path) ==
    Finding(_extract_severity(segment), _extract_category(segment, stage_name),
            file_path, _extract_line_number(segment), segment)

_parse_stage_output(text, stage_name, file_path) ==
    [k \in DOMAIN _split_into_segments(text) |->
        _parse_finding_segment(_split_into_segments(text)[k], stage_name, file_path)]

\* the for loop of extract_findings over result.items()
RECURSIVE StageFindings(_, _)
StageFindings(items, file_path) ==
    IF items = <<>> THEN <<>>
    ELSE (IF Head(items)[1][Len(Head(items)[1])] # "_result" THEN <<>>
          ELSE _parse_stage_output(Head(items)[2], Head(items)[1], file_path))
         \o StageFindings(Tail(items), file_path)

extract_findings(items, file_path) ==
    IF StageFindings(items, file_path) = <<>>
    THEN << Finding("LOW", review, file_path, None,
                    <<"Code review completed. No specific issues found.">>) >>
    ELSE StageFindings(items, file_path)

\* depth_multiplier, in tenths
depth_multiplier == [quick |-> 8, standard |-> 10, deep |-> 11]

\* ResultParser.calculate_confidence, in hundredths
parser_calculate_confidence(items, depth, depth_stages) ==
    LET expected_stages == Get(depth_stages, depth, depth_stages["standard"])
        completed_stages ==
            Cardinality({ k \in DOMAIN items :
                            /\ items[k][1][Len(items[k][1])] = "_result"
                            /\ items[k][2] # no_text })
        multiplier == Get(depth_multiplier, depth, 10)
    IN  IF expected_stages = <<>> THEN 50
        ELSE IF completed_stages * multiplier >= Len(expected_stages) * 10
             THEN round2(1, 1)
             ELSE round2(completed_stages * multiplier, Len(expected_stages) * 10)

_parse_result(chain_type, depth, items, file_path) ==
    ReviewResult(chain_type, extract_findings(items, file_path),
                 parser_calculate_confidence(items, depth, DEPTH_STAGES))

\* ReviewError(f"Chain execution failed: {str(e)}")
\* the number of characters of a text
RECURSIVE CharCount(_)
CharCount(text) ==
    IF text = <<>> THEN 0 ELSE Len(Head(text)) + CharCount(Tail(text))

ReviewError(e) == <<"Chain execution failed: ">> \o e

-----------------------------------------------------------------------------
(* chains/result-parser.py: the three-tier parser.  A stage output is a    *)
(* list of pieces: "[", "]", ",", an object literal written out in full,   *)
(* an object literal cut off before its closing brace, or prose holding    *)
(* no bracket and no brace.                                                *)

high_object == "{\"severity\": \"HIGH\", \"category\": \"security\", \"file_path\": \"a.kt\", \"description\": \"bbb\"}"
low_object == "{\"severity\": \"LOW\", \"category\": \"bug\", \"file_path\": \"a.kt\", \"line_number\": 10, \"description\": \"bbb\"}"
no_description == "{\"severity\": \"HIGH\", \"category\": \"security\", \"file_path\": \"a.kt\"}"
cut_off == "{\"severity\": \"HIGH\""
ten_chars == "0123456789"
eleven_chars == "hello world"

\* what json.loads makes of each object literal
ObjectLiterals ==
    [x \in {high_object, low_object, no_description} |->
        CASE x = high_object ->
                [dict |-> [severity |-> "HIGH", category |-> security,
                           file_path |-> a_kt, description |-> bbb]]
          [] x = low_object ->
                [dict |-> [severity |-> "LOW", category |-> bug, file_path |-> a_kt,
                           line_number |-> 10, description |-> bbb]]
          [] x = no_description ->
                [dict |-> [severity |-> "HIGH", category |-> security,
                           file_path |-> a_kt]]]

\* str.find and str.rfind for "[", "]", "{" and "}": the position of the
\* piece the character is found in, 0 for -1
find(text, char) ==
    LET hits == { i \in DOMAIN text :
                    \/ text[i] = char
                    \/ char = "{" /\ text[i] \in DOMAIN ObjectLiterals \cup {cut_off} }
    IN  IF hits = {} THEN 0 ELSE CHOOSE i \in hits : \A j \in hits : i <= j

rfind(text, char) ==
    LET hits == { i \in DOMAIN text :
                    \/ text[i] = char
                    \/ char = "}" /\ text[i] \in DOMAIN ObjectLiterals }
    IN  IF hits = {} THEN 0 ELSE CHOOSE i \in hits : \A j \in hits : j <= i

\* json.loads, from position i of the text: [ok, value, next]
RECURSIVE ParseValue(_, _), ParseElements(_, _, _)
ParseValue(text, i) ==
    IF i > Len(text) THEN [ok |-> FALSE]
    ELSE IF text[i] \in DOMAIN ObjectLiterals
         THEN [ok |-> TRUE, value |-> ObjectLiterals[text[i]], next |-> i + 1]
    ELSE IF text[i] = "["
         THEN IF i + 1 <= Len(text) /\ text[i + 1] = "]"
              THEN [ok |-> TRUE, value |-> [list |-> <<>>], next |-> i + 2]
              ELSE ParseElements(text, i + 1, <<>>)
    ELSE [ok |-> FALSE]

ParseElements(text, i, items) ==
    LET v == ParseValue(text, i)
    IN  IF ~v.ok \/ v.next > Len(text) THEN [ok |-> FALSE]
        ELSE IF text[v.next] = ","
             THEN ParseElements(text, v.next + 1, Append(items, v.value))
        ELSE IF text[v.next] = "]"
             THEN [ok |-> TRUE, value |-> [list |-> Append(items, v.value)],
                   next |-> v.next + 1]
        ELSE [ok |-> FALSE]

\* json.loads(json_str): None when it raises, else <<the value>>
json_loads(json_str) ==
    LET v == ParseValue(json_str, 1)
    IN  IF v.ok /\ v.next = Len(json_str) + 1 THEN <<v.value>> ELSE None

\* Finding(**item) passes validation
WellFormed(item) ==
    /\ "dict" \in DOMAIN item
    /\ {"severity", "category", "file_path", "description"} \subseteq DOMAIN item.dict
    /\ item.dict.severity \in Severities

\* Finding(**item) for an item that passes validation
FindingOf(item) ==
    Finding(item.dict.severity, item.dict.category, item.dict.file_path,
            IF "line_number" \in DOMAIN item.dict THEN <<item.dict.line_number>> ELSE None,
            item.dict.description)

\* for item in data: findings.append(Finding(**item)), up to the first item
\* that raises
RECURSIVE AppendUntilRaise(_, _)
AppendUntilRaise(data, findings) ==
    IF data = <<>> \/ ~WellFormed(Head(data)) THEN findings
    ELSE AppendUntilRaise(Tail(data), Append(findings, FindingOf(Head(data))))

\* the same loop with the try inside it: an item that raises is passed over
RECURSIVE AppendEachWellFormed(_, _)
AppendEachWellFormed(data, findings) ==
    IF data = <<>> THEN findings
    ELSE AppendEachWellFormed(Tail(data),
            IF WellFormed(Head(data)) THEN Append(findings, FindingOf(Head(data)))
            ELSE findings)

\* The data _manual_json_extract loads: json.loads(text[start : end + 1]),
\* start being the first "[", or else the first "{", and end the last
\* bracket of that kind; None when there is no such span or it does not load.
JsonData(text) ==
    LET first == IF find(text, "[") = 0 THEN find(text, "{") ELSE find(text, "[")
        last == IF first = 0 THEN 0
                ELSE rfind(text, IF text[first] = "[" THEN "]" ELSE "}")
    IN  IF first = 0 \/ last = 0 THEN None
        ELSE json_loads(SubSeq(text, first, last))

\* ResultParser._manual_json_extract.  Everything that can raise is inside
\* one try whose except clause is `pass`: findings appended before the
\* exception are returned.
_manual_json_extract(text, file_path) ==
    LET data == JsonData(text)
    IN  IF data = None THEN <<>>
        ELSE IF "list" \in DOMAIN data[1] THEN AppendUntilRaise(data[1].list, <<>>)
        ELSE IF WellFormed(data[1]) THEN <<FindingOf(data[1])>>
        ELSE <<>>

\* Whether the call of _manual_json_extract in extract_findings raises: its
\* body cannot.
ManualExtractRaises(text) == FALSE

\* PydanticOutputParser(pydantic_object=Finding).parse(value), of the
\* langchain library, whose version the repository does not fix: one
\* release loads the span from the first "{" to the last "}" of the text,
\* another the text as a whole; both validate a Finding from the object
\* loaded.  None stands for OutputParserException.
PydanticParse(text) ==
    LET validated(data) == IF data # None /\ WellFormed(data[1])
                           THEN <<FindingOf(data[1])>> ELSE None
        span == IF find(text, "{") = 0 THEN <<>>
                ELSE SubSeq(text, find(text, "{"), rfind(text, "}"))
    IN  { validated(json_loads(span)), validated(json_loads(text)) }

\* Tier 3 of extract_findings
GenericFinding(value, file_path) ==
    IF value # <<>> /\ CharCount(value) > 10
    THEN <<Finding("LOW", <<"analysis">>, file_path, None, value)>>
    ELSE <<>>

\* One pass of the loop body of extract_findings for a key ending in
\* "_result", tier 1 having answered `parsed`
TieredFindings(parsed, value, file_path) ==
    IF parsed # None THEN parsed
    ELSE IF ManualExtractRaises(value) THEN GenericFinding(value, file_path)
    ELSE _manual_json_extract(value, file_path)

-----------------------------------------------------------------------------
(* core/llm_client.py: what one attempt of LLMClient.invoke may meet.      *)

\* stop_after_attempt(3)
stop_after_attempt == 3

\* What self.llm.invoke(prompt) may do: return a response (content is the
\* text, a list, or missing; None is no response at all), or raise with a
\* message
ModelOutcomes ==
    { [response |-> "text"], [response |-> "list"], [response |-> "no content"],
      [response |-> "None"],
      [raises |-> "Rate limit exceeded"], [raises |-> "Quota exceeded"],
      [raises |-> "HTTP 429 error"], [raises |-> "Generic API error"] }

\* isinstance(response.content, str) for a response that has a content
ReturnsString(outcome) ==
    "response" \in DOMAIN outcome /\ outcome.response = "text"

\* str(e).lower() holds "rate", "quota" or "429"
NamesRateLimit(message) ==
    message \in {"Rate limit exceeded", "Quota exceeded", "HTTP 429 error"}

\* The error the except clause of invoke raises for an attempt that did
\* not return a string: the APIError raised inside the try is caught by
\* the clause too, and its message names no rate limit
AttemptError(outcome) ==
    IF "raises" \in DOMAIN outcome /\ NamesRateLimit(outcome.raises)
    THEN "RateLimitError"
    ELSE "APIError"

\* not prompt or not prompt.strip(), on a prompt of characters
EmptyPrompt(prompt) == \A k \in DOMAIN prompt : prompt[k] = " "

\* retry_if_exception_type((APIError, RateLimitError))
Retried(error) == error \in {"APIError", "RateLimitError"}

-----------------------------------------------------------------------------
(* git/diff_parser.py.  A line is its mark, the leading characters the     *)
(* parser tests for ("---", "+++", "@@", "+", "-", " ", or "" when it      *)
(* starts with none of them), and its body, the characters after the mark; *)
(* a fixed text is written as one element.                                 *)

Line(mark, body) == [mark |-> mark, body |-> body]

\* The hunks a file section may hold: added lines only, removed lines
\* only, both with a context line, two hunks, and none
SectionBodies ==
    { << Line("@@", <<"1", "1">>), Line("+", <<"new">>) >>,
      << Line("@@", <<"3", "3">>), Line("-", <<"old">>) >>,
      << Line("@@", <<"3", "3">>), Line(" ", <<"same">>), Line("-", <<"old">>),
         Line("+", <<"new">>) >>,
      << Line("@@", <<"1", "1">>), Line("+", <<"new">>),
         Line("@@", <<"9", "8">>), Line("-", <<"old">>) >>,
      << >> }

\* The k-th file section of a diff: the "---" line, the "+++" line and the
\* hunks, after the two lines git writes before them when preamble holds
Section(k, preamble, body) ==
    LET name == IF k = 1 THEN a_kt ELSE IF k = 2 THEN b_swift
                ELSE [i \in 1..k |-> "f"]
    IN  (IF preamble
         THEN << Line("", <<"diff --git ">> \o name), Line("", <<"index 1..2">>) >>
         ELSE <<>>)
        \o << Line("---", <<" ", "a/">> \o name), Line("+++", <<" ", "b/">> \o name) >>
        \o body

\* diff_text.split('\n') of the diffs of n sections; a text that ends with
\* a newline gives a last line that is empty
RECURSIVE DiffTexts(_)
DiffTexts(n) ==
    IF n = 0 THEN { <<>> }
    ELSE { text \o Section(n, preamble, body) :
             text \in DiffTexts(n - 1), preamble \in BOOLEAN, body \in SectionBodies }

\* str.strip() of a text whose blanks are elements " "
RECURSIVE strip(_)
strip(text) ==
    IF text = <<>> THEN text
    ELSE IF Head(text) = " " THEN strip(Tail(text))
    ELSE IF text[Len(text)] = " " THEN strip(SubSeq(text, 1, Len(text) - 1))
    ELSE text

\* int() of a decimal numeral of one digit
int(numeral) ==
    CASE numeral = "1" -> 1 [] numeral = "3" -> 3 [] numeral = "8" -> 8
      [] numeral = "9" -> 9

ParsedDiff(path, added_list, removed_list, context_list, old_path, new_path) ==
    [file_path |-> path, added |-> added_list, removed |-> removed_list,
     context |-> context_list, old_file |-> old_path, new_file |-> new_path]

DiffChange(number, text, type) ==
    [line_number |-> number, content |-> text, change_type |-> type]

\* not diff_text or not diff_text.strip()
Blank(lines) ==
    \A k \in DOMAIN lines : lines[k].mark \in {"", " "} /\ strip(lines[k].body) = <<>>

\* The parser while parse runs: its counters, in_hunk, and the locals
\* results and current_diff (None or <<diff>>)
_parse_hunk_header(parser, line) ==
    [parser EXCEPT !.old_line = int(line.body[1]), !.current_line = int(line.body[2])]

\* The branch taken for a line of a hunk and its effect on the diff and
\* the counters
_parse_diff_line(parser, line) ==
    LET diff == parser.current_diff[1]
    IN  IF line.mark = "" /\ line.body = <<>> THEN parser
        ELSE IF line.mark = "+"
        THEN [parser EXCEPT
                !.current_diff = << [diff EXCEPT !.added =
                    Append(@, DiffChange(parser.current_line, line.body, "added"))] >>,
                !.current_line = @ + 1]
        ELSE IF line.mark = "-"
        THEN [parser EXCEPT
                !.current_diff = << [diff EXCEPT !.removed =
                    Append(@, DiffChange(parser.old_line, line.body, "removed"))] >>,
                !.old_line = @ + 1]
        ELSE [parser EXCEPT
                !.current_diff = << [diff EXCEPT !.context =
                    Append(@, DiffChange(parser.current_line, line.body, "context"))] >>,
                !.current_line = @ + 1,
                !.old_line = @ + 1]

\* The body of the while loop of parse for one line
parse_line(parser, line) ==
    IF line.mark = "---"
    THEN [parser EXCEPT
            !.results = IF parser.current_diff # None
                           /\ parser.current_diff[1].added # <<>>
                        THEN Append(@, parser.current_diff[1]) ELSE @,
            !.current_diff =
                << ParsedDiff(<<>>, <<>>, <<>>, <<>>, strip(Tail(line.body)), None) >>]
    ELSE IF line.mark = "+++"
    THEN IF parser.current_diff = None THEN parser
         ELSE LET stripped == strip(Tail(line.body))
                  path == IF stripped # <<>> /\ Head(stripped) = "b/"
                          THEN Tail(stripped) ELSE stripped
              IN  [parser EXCEPT
                      !.current_diff = << [parser.current_diff[1] EXCEPT
                                              !.new_file = path, !.file_path = path] >>]
    ELSE IF line.mark = "@@"
    THEN [_parse_hunk_header(parser, line) EXCEPT !.in_hunk = TRUE]
    ELSE IF parser.in_hunk /\ parser.current_diff # None
    THEN _parse_diff_line(parser, line)
    ELSE parser

-----------------------------------------------------------------------------
(* State.                                                                  *)

VARIABLES
    unit,               \* which part of the program this behaviour runs
    \* SynthesisChain called on a list of findings
    findings,           \* the argument
    deduplicated,       \* <<_deduplicate(findings)>> once it returned
    again,              \* <<_deduplicate of that result>> once it returned
    prioritized,        \* <<_prioritize(findings)>> once it returned
    \* ReviewPipeline.review_files / review_diff
    call,               \* "review_files" or "review_diff"
    file_paths,         \* file_paths, or the keys of file_changes
    platform_override,
    valid_files,    \* the files the loop goes over
    pc,                 \* "call", "loop", "returned", "raised"
    next_file,          \* position of the loop in valid_files
    all_findings,
    platforms_found,
    files_reviewed,
    platform_result,    \* locals of the last _review_single_file /
    universal_result,   \*   _review_diff_content that returned, or None
    final_result,
    reviewed,           \* per file gone over: what was detected and what came of it
    result,             \* <<the ReviewResult returned>>
    \* BaseReviewChain.execute
    chain_type,         \* which class self is
    chain_depth,        \* self.depth
    chain_file,         \* the file_path argument
    active_stages,
    stage_index,        \* position of the for loop in active_stages
    context,            \* the dict, as the list of its items
    invoked,            \* the stages whose invoke was called, in order
    emitted,            \* what each invoke that returned has returned, in order
    chain_pc,           \* "call", "stages", "except", "returned", "raised"
    exception,          \* <<str(e)>> of the exception raised inside the try
    returned,           \* <<the ReviewResult execute returned>>
    raised,             \* <<the message of the ReviewError execute raised>>
    parser_result,      \* the result argument of extract_findings, as its items
    parser_file,        \* its file_path argument
    parser_index,       \* position of the for loop in the items
    parser_findings,    \* its local findings
    parser_log,         \* per item gone over: the tier that answered, and with what
    parser_pc,          \* "loop", "returned"
    detect_file,        \* the arguments of PlatformDetector.detect
    detect_content,
    detect_manual,
    ext_signal,         \* the two signals, by pairs: the arguments of
                        \*   calculate_confidence, or what detect detected
    content_signal,
    detection,          \* <<(platform, confidence)>> once either returned
    \* LLMClient.invoke
    llm_prompt,         \* the prompt argument
    attempt_log,        \* what self.llm.invoke did, per attempt made
    llm_pc,             \* "attempt", "wait", "returned", "raised"
    llm_outcome,        \* <<what invoke returned or raised>>
    \* DiffParser.parse
    diff_lines,         \* diff_text.split('\n')
    line_index,         \* position of the while loop in the lines
    diff_parser,        \* the counters and in_hunk of self, results, current_diff
    diff_pc             \* "call", "loop", "returned"

synthesis_vars == <<findings, deduplicated, again, prioritized>>

pipeline_vars ==
    <<call, file_paths, platform_override, valid_files, pc, next_file,
      all_findings, platforms_found, files_reviewed, platform_result,
      universal_result, final_result, reviewed, result>>

chain_vars ==
    <<chain_type, chain_depth, chain_file, active_stages, stage_index, context,
      invoked, emitted, chain_pc, exception, returned, raised>>

parser_vars ==
    <<parser_result, parser_file, parser_index, parser_findings, parser_log, parser_pc>>

detection_vars ==
    <<detect_file, detect_content, detect_manual, ext_signal, content_signal, detection>>

client_vars == <<llm_prompt, attempt_log, llm_pc, llm_outcome>>

diff_vars == <<diff_lines, line_index, diff_parser, diff_pc>>

vars ==
    <<unit, synthesis_vars, pipeline_vars, chain_vars, parser_vars, detection_vars,
      client_vars, diff_vars>>

ClientIdle ==
    /\ llm_prompt = <<>>
    /\ attempt_log = <<>>
    /\ llm_pc = "idle"
    /\ llm_outcome = None

DiffIdle ==
    /\ diff_lines = <<>>
    /\ line_index = 0
    /\ diff_parser = None
    /\ diff_pc = "idle"

SynthesisIdle ==
    /\ findings = <<>>
    /\ deduplicated = None
    /\ again = None
    /\ prioritized = None

PipelineIdle ==
    /\ call = "none"
    /\ file_paths = <<>>
    /\ platform_override = None
    /\ valid_files = <<>>
    /\ pc = "idle"
    /\ next_file = 0
    /\ all_findings = <<>>
    /\ platforms_found = {}
    /\ files_reviewed = 0
    /\ platform_result = None
    /\ universal_result = None
    /\ final_result = None
    /\ reviewed = <<>>
    /\ result = None

ParserIdle ==
    /\ parser_result = <<>>
    /\ parser_file = <<>>
    /\ parser_index = 0
    /\ parser_findings = <<>>
    /\ parser_log = <<>>
    /\ parser_pc = "idle"

DetectionIdle ==
    /\ detect_file = <<>>
    /\ detect_content = None
    /\ detect_manual = None
    /\ ext_signal = <<None, 0>>
    /\ content_signal = <<None, 0>>
    /\ detection = None

ChainIdle ==
    /\ chain_type = "none"
    /\ chain_depth = "none"
    /\ chain_file = <<>>
    /\ active_stages = <<>>
    /\ stage_index = 0
    /\ context = <<>>
    /\ invoked = <<>>
    /\ emitted = <<>>
    /\ chain_pc = "idle"
    /\ exception = None
    /\ returned = None
    /\ raised = None

-----------------------------------------------------------------------------
(* SynthesisChain on a list of findings.                                   *)

\* Every list of at most two findings, and the longer lists of findings of
\* one category and file.
InitSynthesis ==
    /\ unit = "synthesis"
    /\ ClientIdle
    /\ DiffIdle
    /\ findings \in ListsUpTo(Findings, 2) \cup ListsUpTo(SameLocationFindings, MaxLen)
    /\ deduplicated = None
    /\ again = None
    /\ prioritized = None
    /\ PipelineIdle
    /\ ChainIdle
    /\ ParserIdle
    /\ DetectionIdle

Deduplicate ==
    /\ unit = "synthesis"
    /\ deduplicated = None
    /\ prioritized = None
    /\ deduplicated' = <<_deduplicate(findings)>>
    /\ UNCHANGED <<unit, client_vars, diff_vars, detection_vars, parser_vars,
                   findings, again, prioritized, pipeline_vars, chain_vars>>

DeduplicateAgain ==
    /\ unit = "synthesis"
    /\ deduplicated # None
    /\ again = None
    /\ again' = <<_deduplicate(deduplicated[1])>>
    /\ UNCHANGED <<unit, client_vars, diff_vars, detection_vars, parser_vars,
                   findings, deduplicated, prioritized, pipeline_vars, chain_vars>>

Prioritize ==
    /\ unit = "synthesis"
    /\ deduplicated = None
    /\ prioritized = None
    /\ prioritized' = <<_prioritize(findings)>>
    /\ UNCHANGED <<unit, client_vars, diff_vars, detection_vars, parser_vars,
                   findings, deduplicated, again, pipeline_vars, chain_vars>>

NextSynthesis == Deduplicate \/ DeduplicateAgain \/ Prioritize

SpecSynthesis == InitSynthesis /\ [][NextSynthesis]_vars

-----------------------------------------------------------------------------
(* ReviewPipeline.review_files and review_diff.                            *)

\* review_diff takes a dict: its keys are distinct.
InitPipeline ==
    /\ unit = "pipeline"
    /\ ClientIdle
    /\ DiffIdle
    /\ call \in {"review_files", "review_diff"}
    /\ file_paths \in ListsUpTo(Files, MaxFiles)
    /\ call = "review_diff" =>
          /\ file_paths = Keys(file_paths)
          /\ \A k \in DOMAIN file_paths : file_paths[k] \in DiffFiles
    /\ platform_override \in {None, <<"ios">>}
    /\ valid_files = <<>>
    /\ pc = "call"
    /\ next_file = 0
    /\ all_findings = <<>>
    /\ platforms_found = {}
    /\ files_reviewed = 0
    /\ platform_result = None
    /\ universal_result = None
    /\ final_result = None
    /\ reviewed = <<>>
    /\ result = None
    /\ SynthesisIdle
    /\ ChainIdle
    /\ ParserIdle
    /\ DetectionIdle

loop_vars ==
    <<next_file, all_findings, platforms_found, files_reviewed, platform_result,
      universal_result, final_result, reviewed>>

\* review_files up to its loop: no files, or none that can be read, raises.
ReviewFilesRead ==
    /\ unit = "pipeline" /\ call = "review_files" /\ pc = "call"
    /\ valid_files' = SelectSeq(Keys(file_paths), Readable)
    /\ pc' = IF file_paths = <<>> \/ valid_files' = <<>> THEN "raised" ELSE "loop"
    /\ next_file' = 1
    /\ UNCHANGED <<unit, client_vars, diff_vars, detection_vars, parser_vars,
                   synthesis_vars, chain_vars, call, file_paths, platform_override,
                   all_findings, platforms_found, files_reviewed, platform_result,
                   universal_result, final_result, reviewed, result>>

\* review_diff up to its loop: no file changes raises.
ReviewDiffBegin ==
    /\ unit = "pipeline" /\ call = "review_diff" /\ pc = "call"
    /\ valid_files' = file_paths
    /\ pc' = IF file_paths = <<>> THEN "raised" ELSE "loop"
    /\ next_file' = 1
    /\ UNCHANGED <<unit, client_vars, diff_vars, detection_vars, parser_vars,
                   synthesis_vars, chain_vars, call, file_paths, platform_override,
                   all_findings, platforms_found, files_reviewed, platform_result,
                   universal_result, final_result, reviewed, result>>

InLoop(name) ==
    /\ unit = "pipeline" /\ call = name /\ pc = "loop"
    /\ next_file <= Len(valid_files)

\* The platform _review_single_file reviews a file as
PlatformOf(detected) == IF detected = None THEN "backend" ELSE detected[1]

\* One iteration of review_files in which both chains return: the body of
\* _review_single_file, then the try block's bookkeeping.
ReviewSingleFile ==
    /\ InLoop("review_files")
    /\ LET file_path == valid_files[next_file]
           detected == detect(file_path, <<FileText(file_path)>>, platform_override)[1]
       IN  \E p \in PlatformResults(PlatformOf(detected), file_path),
              u \in UniversalResults(file_path) :
             /\ platform_result' = <<p>>
             /\ universal_result' = <<u>>
             /\ final_result' = <<synthesize(p, u)>>
             /\ all_findings' = all_findings \o final_result'[1].findings
             /\ platforms_found' =
                   IF final_result'[1].platform # ""
                   THEN platforms_found \cup {final_result'[1].platform}
                   ELSE platforms_found
             /\ reviewed' = Append(reviewed,
                   [file_path |-> file_path, detected |-> detected,
                    outcome |-> "reviewed", findings |-> final_result'[1].findings])
    /\ next_file' = next_file + 1
    /\ UNCHANGED <<unit, client_vars, diff_vars, detection_vars, parser_vars,
                   synthesis_vars, chain_vars, call, file_paths, platform_override,
                   valid_files, pc, files_reviewed, result>>

ReviewSingleFileAborts ==
    /\ InLoop("review_files")
    /\ LET file_path == valid_files[next_file]
           detected == detect(file_path, <<FileText(file_path)>>, platform_override)[1]
       IN  /\ platform_result' = None
           /\ universal_result' = None
           /\ final_result' = None
           /\ reviewed' = Append(reviewed,
                 [file_path |-> file_path, detected |-> detected,
                  outcome |-> "failed", findings |-> <<>>])
    /\ pc' = "raised"
    /\ UNCHANGED <<unit, client_vars, diff_vars, detection_vars, parser_vars,
                   synthesis_vars, chain_vars, call, file_paths, platform_override,
                   valid_files, next_file, all_findings, platforms_found,
                   files_reviewed, result>>

\* One iteration of review_files in which the platform chain or the
\* universal chain raises ReviewError: the frame of _review_single_file is
\* gone, the except branch runs.
ReviewSingleFileFails ==
    /\ InLoop("review_files")
    /\ LET file_path == valid_files[next_file]
           detected == detect(file_path, <<FileText(file_path)>>, platform_override)[1]
       IN  /\ platform_result' = None
           /\ universal_result' = None
           /\ final_result' = None
           /\ all_findings' = Append(all_findings, _create_error_finding(file_path, ChainFailed))
           /\ reviewed' = Append(reviewed,
                 [file_path |-> file_path, detected |-> detected,
                  outcome |-> "failed", findings |-> <<>>])
    /\ next_file' = next_file + 1
    /\ UNCHANGED <<unit, client_vars, diff_vars, detection_vars, parser_vars,
                   synthesis_vars, chain_vars, call, file_paths, platform_override,
                   valid_files, pc, platforms_found, files_reviewed, result>>

ReviewDiffSkipCounted ==
    /\ InLoop("review_diff")
    /\ LET file_path == valid_files[next_file]
           detected == detect(file_path, None, platform_override)[1]
       IN  /\ detected = None
           /\ reviewed' = Append(reviewed,
                 [file_path |-> file_path, detected |-> detected,
                  outcome |-> "skipped", findings |-> <<>>])
    /\ files_reviewed' = files_reviewed + 1
    /\ next_file' = next_file + 1
    /\ UNCHANGED <<unit, client_vars, diff_vars, detection_vars, parser_vars,
                   synthesis_vars, chain_vars, call, file_paths, platform_override,
                   valid_files, pc, all_findings, platforms_found,
                   platform_result, universal_result, final_result, result>>

\* One iteration of review_diff for a file no platform is detected for.
ReviewDiffSkip ==
    /\ InLoop("review_diff")
    /\ LET file_path == valid_files[next_file]
           detected == detect(file_path, None, platform_override)[1]
       IN  /\ detected = None
           /\ reviewed' = Append(reviewed,
                 [file_path |-> file_path, detected |-> detected,
                  outcome |-> "skipped", findings |-> <<>>])
    /\ next_file' = next_file + 1
    /\ UNCHANGED <<unit, client_vars, diff_vars, detection_vars, parser_vars,
                   synthesis_vars, chain_vars, call, file_paths, platform_override,
                   valid_files, pc, all_findings, platforms_found, files_reviewed,
                   platform_result, universal_result, final_result, result>>

\* One iteration of review_diff in which both chains return: the body of
\* _review_diff_content, then the try block's bookkeeping.
ReviewDiffContent ==
    /\ InLoop("review_diff")
    /\ LET file_path == valid_files[next_file]
           detected == detect(file_path, None, platform_override)[1]
       IN  /\ detected # None
           /\ \E p \in PlatformResults(detected[1], file_path),
                 u \in UniversalResults(file_path) :
                /\ platform_result' = <<p>>
                /\ universal_result' = <<u>>
                /\ final_result' = <<synthesize(p, u)>>
                /\ all_findings' = all_findings \o final_result'[1].findings
                /\ reviewed' = Append(reviewed,
                      [file_path |-> file_path, detected |-> detected,
                       outcome |-> "reviewed", findings |-> final_result'[1].findings])
           /\ platforms_found' = platforms_found \cup {detected[1]}
    /\ files_reviewed' = files_reviewed + 1
    /\ next_file' = next_file + 1
    /\ UNCHANGED <<unit, client_vars, diff_vars, detection_vars, parser_vars,
                   synthesis_vars, chain_vars, call, file_paths, platform_override,
                   valid_files, pc, result>>

\* One iteration of review_diff in which a chain raises ReviewError.
ReviewDiffContentFails ==
    /\ InLoop("review_diff")
    /\ LET file_path == valid_files[next_file]
           detected == detect(file_path, None, platform_override)[1]
       IN  /\ detected # None
           /\ platform_result' = None
           /\ universal_result' = None
           /\ final_result' = None
           /\ platforms_found' = platforms_found \cup {detected[1]}
           /\ all_findings' = Append(all_findings, _create_error_finding(file_path, ChainFailed))
           /\ reviewed' = Append(reviewed,
                 [file_path |-> file_path, detected |-> detected,
                  outcome |-> "failed", findings |-> <<>>])
    /\ next_file' = next_file + 1
    /\ UNCHANGED <<unit, client_vars, diff_vars, detection_vars, parser_vars,
                   synthesis_vars, chain_vars, call, file_paths, platform_override,
                   valid_files, pc, files_reviewed, result>>

\* After the loop: _aggregate_results(all_findings, list(platforms_found) or
\* ["unknown"], files_count).
Aggregate ==
    /\ unit = "pipeline" /\ pc = "loop"
    /\ next_file > Len(valid_files)
    /\ \E platforms \in (IF platforms_found = {} THEN {<<"unknown">>}
                         ELSE ListsOf(platforms_found)) :
          result' = <<_aggregate_results(all_findings, platforms,
                         IF call = "review_files" THEN Len(valid_files)
                         ELSE files_reviewed)>>
    /\ pc' = "returned"
    /\ UNCHANGED <<unit, client_vars, diff_vars, detection_vars, parser_vars,
                   synthesis_vars, chain_vars, call, file_paths, platform_override,
                   valid_files, loop_vars>>

NextPipeline ==
    \/ ReviewFilesRead
    \/ ReviewDiffBegin
    \/ ReviewSingleFile
    \/ ReviewSingleFileFails
    \/ ReviewDiffSkip
    \/ ReviewDiffContent
    \/ ReviewDiffContentFails
    \/ Aggregate

SpecPipeline == InitPipeline /\ [][NextPipeline]_vars

-----------------------------------------------------------------------------
(* BaseReviewChain.execute, one stage at a time.                           *)

InitChain ==
    /\ unit = "chain"
    /\ ClientIdle
    /\ DiffIdle
    /\ chain_type \in ChainTypes
    /\ chain_depth \in Depths
    /\ chain_file \in {a_kt, b_swift}
    /\ active_stages = <<>>
    /\ stage_index = 0
    /\ context = <<>>
    /\ invoked = <<>>
    /\ emitted = <<>>
    /\ chain_pc = "call"
    /\ exception = None
    /\ returned = None
    /\ raised = None
    /\ SynthesisIdle
    /\ PipelineIdle
    /\ ParserIdle
    /\ DetectionIdle

\* execute up to the for loop of _execute_stages
ExecuteBegin ==
    /\ unit = "chain" /\ chain_pc = "call"
    /\ active_stages' = _select_stages_by_depth(chain_type, chain_depth)
    /\ context' = << << <<"code">>, <<"source">> >>, << <<"file_path">>, chain_file >> >>
    /\ stage_index' = 1
    /\ chain_pc' = "stages"
    /\ UNCHANGED <<unit, client_vars, diff_vars, detection_vars, parser_vars,
                   synthesis_vars, pipeline_vars, emitted, chain_type, chain_depth,
                   chain_file, invoked, exception, returned, raised>>

InStages ==
    /\ unit = "chain" /\ chain_pc = "stages"
    /\ stage_index <= Len(active_stages)

\* A stage name the catalog does not hold, given a stage all the same
StageAbsentInvoked ==
    /\ InStages
    /\ active_stages[stage_index] \notin Range(_build_stages(chain_type))
    /\ context' = SetItem(context, ResultKey(active_stages[stage_index]), no_text)
    /\ invoked' = Append(invoked, active_stages[stage_index])
    /\ stage_index' = stage_index + 1
    /\ UNCHANGED <<unit, client_vars, diff_vars, detection_vars, parser_vars,
                   synthesis_vars, pipeline_vars, emitted, chain_type, chain_depth,
                   chain_file, active_stages, chain_pc, exception, returned, raised>>

\* A stage name the catalog does not hold: continue
StageAbsent ==
    /\ InStages
    /\ active_stages[stage_index] \notin Range(_build_stages(chain_type))
    /\ stage_index' = stage_index + 1
    /\ UNCHANGED <<unit, client_vars, diff_vars, detection_vars, parser_vars,
                   synthesis_vars, pipeline_vars, emitted, chain_type, chain_depth,
                   chain_file, active_stages, context, invoked, chain_pc,
                   exception, returned, raised>>

\* stage.invoke(context) returns
StageInvoke ==
    /\ InStages
    /\ active_stages[stage_index] \in Range(_build_stages(chain_type))
    /\ \E output \in StageOutputs(active_stages[stage_index]) :
          /\ emitted' = Append(emitted, output)
          /\ context' = SetItem(context, ResultKey(active_stages[stage_index]),
                                Get(output, <<"text">>, no_text))
    /\ invoked' = Append(invoked, active_stages[stage_index])
    /\ stage_index' = stage_index + 1
    /\ UNCHANGED <<unit, client_vars, diff_vars, detection_vars, parser_vars,
                   synthesis_vars, pipeline_vars, chain_type, chain_depth,
                   chain_file, active_stages, chain_pc, exception, returned, raised>>

StageRaisesSwallowed ==
    /\ InStages
    /\ active_stages[stage_index] \in Range(_build_stages(chain_type))
    /\ \E e \in Exceptions : exception' = <<e>>
    /\ invoked' = Append(invoked, active_stages[stage_index])
    /\ stage_index' = stage_index + 1
    /\ UNCHANGED <<unit, client_vars, diff_vars, detection_vars, parser_vars,
                   synthesis_vars, pipeline_vars, emitted, chain_type, chain_depth,
                   chain_file, active_stages, context, chain_pc, returned, raised>>

\* stage.invoke(context) raises: control leaves the loop for the except
\* clause of execute
StageRaises ==
    /\ InStages
    /\ active_stages[stage_index] \in Range(_build_stages(chain_type))
    /\ \E e \in Exceptions : exception' = <<e>>
    /\ invoked' = Append(invoked, active_stages[stage_index])
    /\ chain_pc' = "except"
    /\ UNCHANGED <<unit, client_vars, diff_vars, detection_vars, parser_vars,
                   synthesis_vars, pipeline_vars, emitted, chain_type, chain_depth,
                   chain_file, active_stages, stage_index, context, returned, raised>>

AfterStages ==
    /\ unit = "chain" /\ chain_pc = "stages"
    /\ stage_index > Len(active_stages)

\* _parse_result returns, and execute with it
ParseResult ==
    /\ AfterStages
    /\ returned' = <<_parse_result(chain_type, chain_depth, context, chain_file)>>
    /\ chain_pc' = "returned"
    /\ UNCHANGED <<unit, client_vars, diff_vars, detection_vars, parser_vars,
                   synthesis_vars, pipeline_vars, emitted, chain_type, chain_depth,
                   chain_file, active_stages, stage_index, context, invoked,
                   exception, raised>>

\* _parse_result raises
ParseRaises ==
    /\ AfterStages
    /\ \E e \in Exceptions : exception' = <<e>>
    /\ chain_pc' = "except"
    /\ UNCHANGED <<unit, client_vars, diff_vars, detection_vars, parser_vars,
                   synthesis_vars, pipeline_vars, emitted, chain_type, chain_depth,
                   chain_file, active_stages, stage_index, context, invoked,
                   returned, raised>>

\* except Exception as e: raise ReviewError(...) from e
ExecuteExcept ==
    /\ unit = "chain" /\ chain_pc = "except"
    /\ raised' = <<ReviewError(exception[1])>>
    /\ chain_pc' = "raised"
    /\ UNCHANGED <<unit, client_vars, diff_vars, detection_vars, parser_vars,
                   synthesis_vars, pipeline_vars, emitted, chain_type, chain_depth,
                   chain_file, active_stages, stage_index, context, invoked,
                   exception, returned>>

NextChain ==
    \/ ExecuteBegin
    \/ StageAbsent
    \/ StageInvoke
    \/ StageRaises
    \/ ParseResult
    \/ ParseRaises
    \/ ExecuteExcept

SpecChain == InitChain /\ [][NextChain]_vars

\* The names a caller may put on an active-stage list: stages of the
\* platform catalogs, one of the universal catalog, one of neither
StageNames == {"architecture", "improvements", "security", "nonexistent_stage"}

\* _execute_stages called on its own, as the tests call it, with any list
\* of at most MaxLen names; a stage that raises ends the call
InitStages ==
    /\ unit = "chain"
    /\ ClientIdle
    /\ DiffIdle
    /\ chain_type \in {"android", "universal"}
    /\ chain_depth = "standard"
    /\ chain_file \in {a_kt, b_swift}
    /\ active_stages \in UNION { [1..n -> StageNames] : n \in 0..MaxLen }
    /\ stage_index = 1
    /\ context = << << <<"code">>, <<"source">> >>, << <<"file_path">>, chain_file >> >>
    /\ invoked = <<>>
    /\ emitted = <<>>
    /\ chain_pc = "stages"
    /\ exception = None
    /\ returned = None
    /\ raised = None
    /\ SynthesisIdle
    /\ PipelineIdle
    /\ ParserIdle
    /\ DetectionIdle

NextStages ==
    \/ StageAbsent
    \/ StageInvoke
    \/ StageRaises

SpecStages == InitStages /\ [][NextStages]_vars

-----------------------------------------------------------------------------
(* ReviewPipeline._aggregate_results on its own, on any number of findings *)
(* and any files_count (kept in files_reviewed).                           *)

InitAggregate ==
    /\ unit = "aggregate"
    /\ ClientIdle
    /\ DiffIdle
    /\ \E n \in 0..MaxFindings :
          all_findings = [k \in 1..n |-> _create_error_finding(a_kt, ChainFailed)]
    /\ files_reviewed \in 0..MaxCount
    /\ platforms_found \in {{}, {"android"}}
    /\ call = "none"
    /\ file_paths = <<>>
    /\ platform_override = None
    /\ valid_files = <<>>
    /\ pc = "call"
    /\ next_file = 0
    /\ platform_result = None
    /\ universal_result = None
    /\ final_result = None
    /\ reviewed = <<>>
    /\ result = None
    /\ SynthesisIdle
    /\ ChainIdle
    /\ ParserIdle
    /\ DetectionIdle

AggregateResults ==
    /\ unit = "aggregate" /\ pc = "call"
    /\ \E platforms \in (IF platforms_found = {} THEN {<<"unknown">>}
                         ELSE ListsOf(platforms_found)) :
          result' = <<_aggregate_results(all_findings, platforms, files_reviewed)>>
    /\ pc' = "returned"
    /\ UNCHANGED <<unit, client_vars, diff_vars, detection_vars, parser_vars,
                   synthesis_vars, chain_vars, call, file_paths,
                   platform_override, valid_files, loop_vars>>

SpecAggregate == InitAggregate /\ [][AggregateResults]_vars

-----------------------------------------------------------------------------
(* SynthesisChain and ReviewPipeline together: every place _prioritize is  *)
(* called from.                                                            *)

-----------------------------------------------------------------------------
(* chains/result-parser.py: ResultParser.extract_findings, item by item    *)

JsonPieces == {"[", "]", ",", high_object, low_object, no_description}

\* Stage outputs: JSON-like texts, prose alone, prose around a short
\* JSON-like text, an object cut off
StageTexts ==
    ListsUpTo(JsonPieces, MaxPieces)
        \cup { <<ten_chars>>, <<eleven_chars>>, <<cut_off>>, <<cut_off, high_object>> }
        \cup { <<eleven_chars>> \o t : t \in ListsUpTo(JsonPieces, 3) }
        \cup { t \o <<eleven_chars>> : t \in ListsUpTo(JsonPieces, 3) }

ShortStageTexts ==
    { <<>>, <<ten_chars>>, <<eleven_chars>>, <<high_object>>,
      <<"[", no_description, ",", low_object, "]">> }

InitParser ==
    /\ unit = "parser"
    /\ ClientIdle
    /\ DiffIdle
    /\ \/ \E t \in StageTexts :
             parser_result = << << <<"code">>, <<"source">> >>,
                                <<ResultKey("architecture"), t>> >>
       \/ \E t1 \in ShortStageTexts, t2 \in ShortStageTexts :
             parser_result = << <<ResultKey("architecture"), t1>>,
                                <<ResultKey("tests"), t2>> >>
    /\ parser_file \in {a_kt, b_swift}
    /\ parser_index = 1
    /\ parser_findings = <<>>
    /\ parser_log = <<>>
    /\ parser_pc = "loop"
    /\ SynthesisIdle
    /\ PipelineIdle
    /\ ChainIdle
    /\ DetectionIdle

InItems ==
    /\ unit = "parser" /\ parser_pc = "loop"
    /\ parser_index <= Len(parser_result)

EndsWithResult(key) == key[Len(key)] = "_result"

\* if not key.endswith("_result"): continue
ExtractSkipsKey ==
    /\ InItems
    /\ ~EndsWithResult(parser_result[parser_index][1])
    /\ parser_log' = Append(parser_log,
          [key |-> parser_result[parser_index][1],
           value |-> parser_result[parser_index][2], tier |-> 0, findings |-> <<>>])
    /\ parser_index' = parser_index + 1
    /\ UNCHANGED <<unit, client_vars, diff_vars, detection_vars, synthesis_vars, pipeline_vars, chain_vars, parser_result,
                   parser_file, parser_findings, parser_pc>>

\* Tier 1 returns a Finding
ExtractTier1 ==
    /\ InItems
    /\ EndsWithResult(parser_result[parser_index][1])
    /\ \E parsed \in PydanticParse(parser_result[parser_index][2]) :
          /\ parsed # None
          /\ parser_log' = Append(parser_log,
                [key |-> parser_result[parser_index][1],
                 value |-> parser_result[parser_index][2], tier |-> 1,
                 findings |-> TieredFindings(parsed, parser_result[parser_index][2],
                                             parser_file)])
    /\ parser_findings' = parser_findings \o parser_log'[Len(parser_log')].findings
    /\ parser_index' = parser_index + 1
    /\ UNCHANGED <<unit, client_vars, diff_vars, detection_vars, synthesis_vars, pipeline_vars, chain_vars, parser_result,
                   parser_file, parser_pc>>

\* Tier 1 raises: tier 2, and tier 3 should tier 2 raise
ExtractTier2 ==
    /\ InItems
    /\ EndsWithResult(parser_result[parser_index][1])
    /\ None \in PydanticParse(parser_result[parser_index][2])
    /\ parser_log' = Append(parser_log,
          [key |-> parser_result[parser_index][1],
           value |-> parser_result[parser_index][2], tier |-> 2,
           findings |-> TieredFindings(None, parser_result[parser_index][2],
                                       parser_file)])
    /\ parser_findings' = parser_findings \o parser_log'[Len(parser_log')].findings
    /\ parser_index' = parser_index + 1
    /\ UNCHANGED <<unit, client_vars, diff_vars, detection_vars, synthesis_vars, pipeline_vars, chain_vars, parser_result,
                   parser_file, parser_pc>>

\* return findings
ExtractReturns ==
    /\ unit = "parser" /\ parser_pc = "loop"
    /\ parser_index > Len(parser_result)
    /\ parser_pc' = "returned"
    /\ UNCHANGED <<unit, client_vars, diff_vars, detection_vars, synthesis_vars, pipeline_vars, chain_vars, parser_result,
                   parser_file, parser_index, parser_findings, parser_log>>

NextParser ==
    \/ ExtractSkipsKey
    \/ ExtractTier1
    \/ ExtractTier2
    \/ ExtractReturns

SpecParser == InitParser /\ [][NextParser]_vars

-----------------------------------------------------------------------------
(* detection/detector.py: PlatformDetector.detect, and                     *)
(* detection/confidence.py: calculate_confidence, each called once         *)

InitDetect ==
    /\ unit = "detect"
    /\ ClientIdle
    /\ DiffIdle
    /\ detect_file \in DetectFiles
    /\ detect_content \in {None, << <<>> >>, <<weak_ios>>, <<weak_android>>}
    /\ detect_manual \in {None, <<"invalid">>} \cup { <<q>> : q \in Platforms }
    /\ ext_signal = None
    /\ content_signal = None
    /\ detection = None
    /\ SynthesisIdle
    /\ PipelineIdle
    /\ ChainIdle
    /\ ParserIdle

\* ext_signal and content_signal hold the two detections detect has run,
\* None while it has run neither.
Detect ==
    /\ unit = "detect" /\ detection = None
    /\ detection' = <<detect(detect_file, detect_content, detect_manual)>>
    /\ IF detect_manual # None /\ is_valid_platform(detect_manual[1])
       THEN UNCHANGED <<ext_signal, content_signal>>
       ELSE /\ ext_signal' = detect_by_extension(detect_file)
            /\ content_signal' =
                  content_detection(detect_file, detect_content, ext_signal'[2])
    /\ UNCHANGED <<unit, client_vars, diff_vars, synthesis_vars, pipeline_vars, chain_vars, parser_vars,
                   detect_file, detect_content, detect_manual>>

SpecDetect == InitDetect /\ [][Detect]_vars

ConfidenceLevels == { (k * 10000) \div MaxLevel : k \in 0..MaxLevel }

\* what detect_by_extension or detect_by_content may answer
Signals ==
    { <<None, 0>> } \cup { << <<q>>, c >> : q \in Platforms, c \in ConfidenceLevels }

InitConfidence ==
    /\ unit = "confidence"
    /\ ClientIdle
    /\ DiffIdle
    /\ ext_signal \in Signals
    /\ content_signal \in Signals
    /\ detect_file = <<>>
    /\ detect_content = None
    /\ detect_manual = None
    /\ detection = None
    /\ SynthesisIdle
    /\ PipelineIdle
    /\ ChainIdle
    /\ ParserIdle

CalculateConfidence ==
    /\ unit = "confidence" /\ detection = None
    /\ detection' = <<calculate_confidence(ext_signal[1], ext_signal[2],
                                           content_signal[1], content_signal[2])>>
    /\ UNCHANGED <<unit, client_vars, diff_vars, synthesis_vars, pipeline_vars, chain_vars, parser_vars,
                   detect_file, detect_content, detect_manual, ext_signal,
                   content_signal>>

SpecConfidence == InitConfidence /\ [][CalculateConfidence]_vars

SpecOrder ==
    (InitSynthesis \/ InitPipeline) /\ [][NextSynthesis \/ NextPipeline]_vars

-----------------------------------------------------------------------------
(* core/llm_client.py: one call of LLMClient.invoke under the retry        *)
(* decorator.                                                              *)

InitClient ==
    /\ unit = "client"
    /\ llm_prompt \in { <<>>, <<" ">>, <<"p">>, <<"p", " ">> }
    /\ attempt_log = <<>>
    /\ llm_pc = "attempt"
    /\ llm_outcome = None
    /\ SynthesisIdle
    /\ PipelineIdle
    /\ ChainIdle
    /\ ParserIdle
    /\ DetectionIdle
    /\ DiffIdle

\* raise ValueError("Prompt cannot be empty"): not an error the decorator
\* retries
AttemptRejectsPrompt ==
    /\ unit = "client" /\ llm_pc = "attempt"
    /\ EmptyPrompt(llm_prompt)
    /\ llm_outcome' = <<[raises |-> "ValueError"]>>
    /\ llm_pc' = "raised"
    /\ UNCHANGED <<unit, synthesis_vars, pipeline_vars, chain_vars, parser_vars,
                   detection_vars, diff_vars, llm_prompt, attempt_log>>

\* self.llm.invoke(prompt) answers with a string content: return content
AttemptReturns ==
    /\ unit = "client" /\ llm_pc = "attempt"
    /\ ~EmptyPrompt(llm_prompt)
    /\ \E outcome \in ModelOutcomes :
          /\ ReturnsString(outcome)
          /\ attempt_log' = Append(attempt_log, outcome)
          /\ llm_outcome' = <<[returns |-> outcome.response]>>
    /\ llm_pc' = "returned"
    /\ UNCHANGED <<unit, synthesis_vars, pipeline_vars, chain_vars, parser_vars,
                   detection_vars, diff_vars, llm_prompt>>

\* The attempt fails, and the decorator stops after one attempt too many
AttemptFailsStoppingLate ==
    /\ unit = "client" /\ llm_pc = "attempt"
    /\ ~EmptyPrompt(llm_prompt)
    /\ \E outcome \in ModelOutcomes :
          /\ ~ReturnsString(outcome)
          /\ attempt_log' = Append(attempt_log, outcome)
          /\ IF Retried(AttemptError(outcome))
                /\ Len(attempt_log') < stop_after_attempt + 1
             THEN llm_pc' = "wait" /\ UNCHANGED llm_outcome
             ELSE /\ llm_pc' = "raised"
                  /\ llm_outcome' = <<[raises |-> AttemptError(outcome)]>>
    /\ UNCHANGED <<unit, synthesis_vars, pipeline_vars, chain_vars, parser_vars,
                   detection_vars, diff_vars, llm_prompt>>

\* The attempt fails: the except clause raises RateLimitError or APIError,
\* which the decorator retries unless this was the last attempt allowed;
\* then the error is raised to the caller (reraise=True)
AttemptFails ==
    /\ unit = "client" /\ llm_pc = "attempt"
    /\ ~EmptyPrompt(llm_prompt)
    /\ \E outcome \in ModelOutcomes :
          /\ ~ReturnsString(outcome)
          /\ attempt_log' = Append(attempt_log, outcome)
          /\ IF Retried(AttemptError(outcome))
                /\ Len(attempt_log') < stop_after_attempt
             THEN llm_pc' = "wait" /\ UNCHANGED llm_outcome
             ELSE /\ llm_pc' = "raised"
                  /\ llm_outcome' = <<[raises |-> AttemptError(outcome)]>>
    /\ UNCHANGED <<unit, synthesis_vars, pipeline_vars, chain_vars, parser_vars,
                   detection_vars, diff_vars, llm_prompt>>

\* wait_exponential(multiplier=1, min=2, max=10) is over: the next attempt
WaitOver ==
    /\ unit = "client" /\ llm_pc = "wait"
    /\ llm_pc' = "attempt"
    /\ UNCHANGED <<unit, synthesis_vars, pipeline_vars, chain_vars, parser_vars,
                   detection_vars, diff_vars, llm_prompt, attempt_log, llm_outcome>>

NextClient ==
    \/ AttemptRejectsPrompt
    \/ AttemptReturns
    \/ AttemptFails
    \/ WaitOver

\* The call runs on: a wait lasts 10 seconds at most, and so long as
\* self.llm.invoke comes back the next step is taken
SpecClient == InitClient /\ [][NextClient]_vars /\ WF_vars(NextClient)

-----------------------------------------------------------------------------
(* git/diff_parser.py: one call of DiffParser.parse.                       *)

\* self after reset(), with the locals results and current_diff
reset ==
    [current_line |-> 0, old_line |-> 0, in_hunk |-> FALSE,
     results |-> <<>>, current_diff |-> None]

InitDiffParser ==
    /\ unit = "diff"
    /\ diff_lines \in
          { text \o last : text \in UNION { DiffTexts(n) : n \in 0..MaxSections },
                           last \in { <<>>, <<Line("", <<>>)>> } }
    /\ line_index = 0
    /\ diff_parser = None
    /\ diff_pc = "call"
    /\ SynthesisIdle
    /\ PipelineIdle
    /\ ChainIdle
    /\ ParserIdle
    /\ DetectionIdle
    /\ ClientIdle

\* self.reset(), and return [] for a text that is empty or blank
ParseBlank ==
    /\ unit = "diff" /\ diff_pc = "call"
    /\ Blank(diff_lines)
    /\ diff_parser' = reset
    /\ diff_pc' = "returned"
    /\ UNCHANGED <<unit, synthesis_vars, pipeline_vars, chain_vars, parser_vars,
                   detection_vars, client_vars, diff_lines, line_index>>

\* self.reset(), up to the while loop
ParseBegin ==
    /\ unit = "diff" /\ diff_pc = "call"
    /\ ~Blank(diff_lines)
    /\ diff_parser' = reset
    /\ line_index' = 1
    /\ diff_pc' = "loop"
    /\ UNCHANGED <<unit, synthesis_vars, pipeline_vars, chain_vars, parser_vars,
                   detection_vars, client_vars, diff_lines>>

\* One pass of the while loop
ParseLine ==
    /\ unit = "diff" /\ diff_pc = "loop"
    /\ line_index <= Len(diff_lines)
    /\ diff_parser' = parse_line(diff_parser, diff_lines[line_index])
    /\ line_index' = line_index + 1
    /\ UNCHANGED <<unit, synthesis_vars, pipeline_vars, chain_vars, parser_vars,
                   detection_vars, client_vars, diff_lines, diff_pc>>

\* After the loop: append the last diff when it has a file_path, return
ParseReturn ==
    /\ unit = "diff" /\ diff_pc = "loop"
    /\ line_index > Len(diff_lines)
    /\ diff_parser' =
          IF diff_parser.current_diff # None
             /\ diff_parser.current_diff[1].file_path # <<>>
          THEN [diff_parser EXCEPT !.results = Append(@, diff_parser.current_diff[1])]
          ELSE diff_parser
    /\ diff_pc' = "returned"
    /\ UNCHANGED <<unit, synthesis_vars, pipeline_vars, chain_vars, parser_vars,
                   detection_vars, client_vars, diff_lines, line_index>>

NextDiffParser ==
    \/ ParseBlank
    \/ ParseBegin
    \/ ParseLine
    \/ ParseReturn

SpecDiffParser == InitDiffParser /\ [][NextDiffParser]_vars

-----------------------------------------------------------------------------
(* The claims.                                                             *)

\* Python's min() of two severities' ranks, HIGH = 0 < MEDIUM = 1 < LOW = 2
SeverityRank(severity) ==
    CASE severity = "HIGH" -> 0 [] severity = "MEDIUM" -> 1 [] severity = "LOW" -> 2

SameCategoryAndFile(f, g) == f.category = g.category /\ f.file_path = g.file_path

\* C1: _deduplicate is idempotent: deduplicating the list it returned gives
\* that list again.
C1_DeduplicateIdempotent ==
    (unit = "synthesis" /\ deduplicated # None /\ again # None)
        => again[1] = deduplicated[1]

\* C2: in review_files a failing file never aborts the batch: once there is
\* a readable file the call does not raise; the result it returns holds, for
\* each failing file, exactly one finding with that file's path, a LOW one
\* of category "review", and every finding made for a file that was reviewed.
C2_FailureDoesNotAbortBatch ==
    (unit = "pipeline" /\ call = "review_files") =>
        /\ pc = "raised" => (valid_files = <<>> /\ reviewed = <<>>)
        /\ pc = "returned" =>
              /\ result # None
              /\ Len(reviewed) = Len(valid_files)
              /\ \A k \in DOMAIN reviewed :
                    /\ reviewed[k].outcome \in {"failed", "reviewed"}
                    /\ reviewed[k].outcome = "failed" =>
                          /\ Cardinality({ i \in DOMAIN result[1].findings :
                                result[1].findings[i].file_path = reviewed[k].file_path }) = 1
                          /\ \A i \in DOMAIN result[1].findings :
                                result[1].findings[i].file_path = reviewed[k].file_path =>
                                   /\ result[1].findings[i].severity = "LOW"
                                   /\ result[1].findings[i].category = review
                    /\ reviewed[k].outcome = "reviewed" =>
                          \A i \in DOMAIN reviewed[k].findings :
                             \E j \in DOMAIN result[1].findings :
                                result[1].findings[j] = reviewed[k].findings[i]

\* a batch returned although its first file failed and a later one was
\* reviewed
C2_Witness ==
    /\ unit = "pipeline" /\ call = "review_files" /\ pc = "returned"
    /\ Len(reviewed) >= 2
    /\ reviewed[1].outcome = "failed"
    /\ reviewed[2].outcome = "reviewed"

\* C3: execute is all-or-nothing: once a stage invocation or the parsing has
\* raised, execute returns no ReviewResult, raises one ReviewError whose
\* message wraps the original message, and no stage behind the failing one
\* in the active list is invoked; and it raises for no other reason.
C3_ExecuteAllOrNothing ==
    unit = "chain" =>
        /\ exception # None =>
              /\ chain_pc \in {"except", "raised"}
              /\ returned = None
              /\ chain_pc = "except" => raised = None
              /\ chain_pc = "raised" =>
                    raised = << <<"Chain execution failed: ">> \o exception[1] >>
              /\ \A k \in DOMAIN active_stages :
                    k > stage_index =>
                       \A i \in DOMAIN invoked : invoked[i] # active_stages[k]
        /\ exception = None => (raised = None /\ chain_pc \notin {"except", "raised"})
        /\ returned # None => chain_pc = "returned"

\* the second stage invoked raised, with a stage of the catalog still to come
C3_Witness ==
    /\ unit = "chain" /\ chain_pc = "raised"
    /\ Len(invoked) = 2
    /\ stage_index < Len(active_stages)
    /\ \E k \in DOMAIN _build_stages(chain_type) :
          _build_stages(chain_type)[k] = active_stages[stage_index + 1]

\* C4: of two findings of one category and file whose descriptions have a
\* similarity ratio above 0.8, in either order, _deduplicate keeps exactly
\* one, and it has the higher-priority severity of the two.
C4_SimilarPairLeavesHigherPriority ==
    ( /\ unit = "synthesis" /\ deduplicated # None
      /\ Len(findings) = 2
      /\ SameCategoryAndFile(findings[1], findings[2])
      /\ 10 * ratio(findings[1].description, findings[2].description)[1]
            > 8 * ratio(findings[1].description, findings[2].description)[2] )
    =>
      /\ Len(deduplicated[1]) = 1
      /\ deduplicated[1][1] \in {findings[1], findings[2]}
      /\ SeverityRank(deduplicated[1][1].severity)
            = Min(SeverityRank(findings[1].severity), SeverityRank(findings[2].severity))

Dissimilar(a, b) == 10 * ratio(a, b)[1] <= 8 * ratio(a, b)[2]

\* both findings have a line_number and the two are at most 5 apart
WithinFiveLines(f, g) ==
    /\ f.line_number # None
    /\ g.line_number # None
    /\ f.line_number[1] - g.line_number[1] <= 5
    /\ g.line_number[1] - f.line_number[1] <= 5

\* C5: for two findings of one category and file with dissimilar
\* descriptions, _are_similar holds exactly when both have a line_number and
\* the line numbers are at most 5 apart, and _deduplicate merges the pair
\* exactly then.
C5_LineProximityDecides ==
    ( /\ unit = "synthesis" /\ deduplicated # None
      /\ Len(findings) = 2
      /\ SameCategoryAndFile(findings[1], findings[2])
      /\ Dissimilar(findings[1].description, findings[2].description)
      /\ Dissimilar(findings[2].description, findings[1].description) )
    =>
      /\ _are_similar(findings[1], findings[2]) <=> WithinFiveLines(findings[1], findings[2])
      /\ _are_similar(findings[2], findings[1]) <=> WithinFiveLines(findings[1], findings[2])
      /\ (Len(deduplicated[1]) = 1) <=> WithinFiveLines(findings[1], findings[2])
      /\ (Len(deduplicated[1]) = 2) <=> ~WithinFiveLines(findings[1], findings[2])

\* C6: the list _deduplicate returns is no longer than its input, and every
\* finding in it is one of the input's findings, unchanged.
C6_DeduplicateKeepsInputFindings ==
    unit = "synthesis" =>
        /\ deduplicated # None =>
              /\ Len(deduplicated[1]) <= Len(findings)
              /\ \A k \in DOMAIN deduplicated[1] :
                    \E i \in DOMAIN findings : deduplicated[1][k] = findings[i]
        /\ again # None =>
              /\ Len(again[1]) <= Len(deduplicated[1])
              /\ \A k \in DOMAIN again[1] :
                    \E i \in DOMAIN deduplicated[1] : again[1][k] = deduplicated[1][i]

\* a later finding of higher priority took the place of the first one
C6_Witness ==
    /\ unit = "synthesis" /\ deduplicated # None
    /\ Len(findings) = 3
    /\ Len(deduplicated[1]) = 2
    /\ deduplicated[1][1] = findings[3]
    /\ findings[3] # findings[1]

\* the key (severity_rank, category, file_path) of f is not larger than g's
KeyNotLarger(f, g) ==
    \/ SeverityRank(f.severity) < SeverityRank(g.severity)
    \/ /\ f.severity = g.severity
       /\ \/ StrLess(f.category, g.category)
          \/ /\ f.category = g.category
             /\ \/ StrLess(f.file_path, g.file_path)
                \/ f.file_path = g.file_path

SameKey(f, g) ==
    f.severity = g.severity /\ f.category = g.category /\ f.file_path = g.file_path

InKeyOrder(out) ==
    \A i, j \in DOMAIN out : i < j => KeyNotLarger(out[i], out[j])

\* out is in key order, has the length of in, and the findings of each key
\* are in out the ones of in, in the order of in
PrioritizedFrom(out, in) ==
    /\ InKeyOrder(out)
    /\ Len(out) = Len(in)
    /\ \A k \in DOMAIN in :
          SelectSeq(out, LAMBDA g : SameKey(g, in[k]))
             = SelectSeq(in, LAMBDA g : SameKey(g, in[k]))

\* C7: _prioritize returns a permutation of its input sorted non-decreasing
\* by (severity_rank, category, file_path), findings of equal keys in input
\* order; the findings of the results of synthesize, review_files and
\* review_diff are in this order.
C7_PrioritizeStableKeyOrder ==
    /\ (unit = "synthesis" /\ prioritized # None) =>
          PrioritizedFrom(prioritized[1], findings)
    /\ (unit = "pipeline" /\ final_result # None) =>
          InKeyOrder(final_result[1].findings)
    /\ (unit = "pipeline" /\ result # None) =>
          PrioritizedFrom(result[1].findings, all_findings)

\* three findings were reordered, two of them of one key
C7_Witness ==
    /\ unit = "synthesis" /\ prioritized # None
    /\ Len(findings) = 3
    /\ prioritized[1] # findings
    /\ findings[1] # findings[3]
    /\ SameKey(findings[1], findings[3])

\* C8: the confidence of the result of synthesize is the smaller of the
\* confidences of its two inputs, whatever their findings.
C8_SynthesizeMinConfidence ==
    (unit = "pipeline" /\ final_result # None) =>
        /\ platform_result # None /\ universal_result # None
        /\ final_result[1].confidence <= platform_result[1].confidence
        /\ final_result[1].confidence <= universal_result[1].confidence
        /\ final_result[1].confidence
              \in {platform_result[1].confidence, universal_result[1].confidence}

\* the platform result is the less confident one
C8_Witness ==
    /\ unit = "pipeline" /\ final_result # None
    /\ platform_result[1].confidence < universal_result[1].confidence
    /\ Len(platform_result[1].findings) = 1

FirstDetected(log) ==
    IF \E k \in DOMAIN log : log[k].detected # None
    THEN log[CHOOSE k \in DOMAIN log :
                /\ log[k].detected # None
                /\ \A i \in 1..(k - 1) : log[i].detected = None].detected[1]
    ELSE "unknown"

\* C10: the platform of the result of review_files / review_diff is the
\* platform of the first file, in input order, for which one was detected,
\* "unknown" when there is none: a function of the input.
C10_PlatformOfFirstDetectedFile ==
    (unit = "pipeline" /\ pc = "returned") =>
        result[1].platform = FirstDetected(reviewed)

-----------------------------------------------------------------------------
\* C11: in review_diff a file for which no platform is detected is skipped
\* entirely: the iteration runs no chain, adds no finding, does not count
\* the file as reviewed, and the loop goes on with the next file.
C11_UndetectedDiffFileSkipped ==
    [][(/\ InLoop("review_diff")
        /\ detect(valid_files[next_file], None, platform_override)[1] = None)
       => /\ platform_result' = platform_result
          /\ universal_result' = universal_result
          /\ final_result' = final_result
          /\ all_findings' = all_findings
          /\ files_reviewed' = files_reviewed
          /\ platforms_found' = platforms_found
          /\ pc' = "loop" /\ next_file' = next_file + 1]_vars

\* a diff review returned in which the first file was skipped and the
\* second reviewed
C11_Witness ==
    /\ unit = "pipeline" /\ call = "review_diff" /\ pc = "returned"
    /\ Len(reviewed) >= 2
    /\ reviewed[1].outcome = "skipped"
    /\ reviewed[2].outcome = "reviewed"
    /\ files_reviewed = Cardinality({ k \in DOMAIN reviewed : reviewed[k].outcome = "reviewed" })

-----------------------------------------------------------------------------
\* C12: for every chain type a depth other than "quick", "standard" and
\* "deep" selects exactly the active-stage list "standard" selects for that
\* chain type.
C12_UnknownDepthSelectsStandard ==
    (/\ unit = "chain" /\ chain_pc # "call"
     /\ chain_depth \notin {"quick", "standard", "deep"})
        => active_stages = _select_stages_by_depth(chain_type, "standard")

\* C13: a platform chain run at depth "deep" that returned has invoked all
\* six stages of the deep list, every one of them being in its catalog.
C13_DeepInvokesSixStages ==
    (/\ unit = "chain" /\ chain_type # "universal"
     /\ chain_depth = "deep" /\ chain_pc = "returned")
        => /\ Range(DEPTH_STAGES["deep"]) \subseteq Range(_build_stages(chain_type))
           /\ invoked = DEPTH_STAGES["deep"]
           /\ Len(invoked) = 6

\* C14: the confidence of the ReviewResult execute returns never exceeds
\* 0.95, whatever the chain type, the depth and the stage outputs.
C14_ConfidenceAtMost95 ==
    (unit = "chain" /\ returned # None) => returned[1].confidence <= 95

\* the stages of the active list that executed: they left a text in the
\* context
ExecutedStages ==
    { k \in DOMAIN active_stages :
        \E i \in DOMAIN context :
           context[i][1] = ResultKey(active_stages[k]) /\ context[i][2] # no_text }

\* C15: the confidence of a returned result is the number of executed
\* stages over the length of the chain's own active-stage list for the
\* depth, capped (at 0.95, or at 1 where the cap of C14 is missing): a run
\* in which every active stage executed has ratio 1.
C15_RatioOverOwnActiveList ==
    (unit = "chain" /\ returned # None) =>
        \E cap \in {95, 100} :
           returned[1].confidence =
              Min(round2(Cardinality(ExecutedStages), Len(active_stages)), cap)

-----------------------------------------------------------------------------
\* C17: when no stage output yields a finding (the context holds no
\* "_result" key, or only empty or very short texts under such keys), the
\* ReviewResult a chain returns has no finding at all: no synthetic "no
\* issues" finding is put in.
C17_NoSyntheticFinding ==
    (/\ unit = "chain" /\ returned # None
     /\ \A i \in DOMAIN context :
           context[i][1][Len(context[i][1])] = "_result"
              => CharCount(context[i][2]) <= 10)
        => returned[1].findings = <<>>

-----------------------------------------------------------------------------
\* a stage output tier 1 raises on and tier 2 loads no JSON value from
NotJson(value) == PydanticParse(value) = {None} /\ JsonData(value) = None

\* C16: tier 3 of the three-tier parser: a stage output that tiers 1 and 2
\* cannot parse as JSON yields exactly one finding, LOW, of category
\* "analysis", with the file_path given, when it is longer than 10
\* characters, and no finding when it has 10 characters or fewer.
C16_Tier3GenericFinding ==
    unit = "parser" =>
        \A k \in DOMAIN parser_log :
           (parser_log[k].tier # 0 /\ NotJson(parser_log[k].value)) =>
              IF CharCount(parser_log[k].value) > 10
              THEN /\ Len(parser_log[k].findings) = 1
                   /\ parser_log[k].findings[1].severity = "LOW"
                   /\ parser_log[k].findings[1].category = <<"analysis">>
                   /\ parser_log[k].findings[1].file_path = parser_file
              ELSE parser_log[k].findings = <<>>

\* C18: tier 2 emits one Finding per well-formed element of the JSON list
\* it loaded: a malformed element yields no finding for that element only,
\* the well-formed ones before and after it still yield theirs.
C18_OneFindingPerWellFormedElement ==
    unit = "parser" =>
        \A k \in DOMAIN parser_log :
           (/\ parser_log[k].tier = 2
            /\ JsonData(parser_log[k].value) # None
            /\ "list" \in DOMAIN JsonData(parser_log[k].value)[1]) =>
              parser_log[k].findings =
                 AppendEachWellFormed(JsonData(parser_log[k].value)[1].list, <<>>)

-----------------------------------------------------------------------------
\* C19: when the extension signal and the content signal name different
\* platforms, calculate_confidence returns the signal of the strictly
\* higher confidence, the content signal when the confidences are equal,
\* and the confidence returned is that signal's, unchanged.
C19_DisagreementHigherWinsTieToContent ==
    (/\ unit = "confidence" /\ detection # None
     /\ ext_signal[1] # None /\ content_signal[1] # None
     /\ ext_signal[1] # content_signal[1])
        => detection[1] = IF ext_signal[2] > content_signal[2]
                          THEN ext_signal ELSE content_signal

\* the two signals disagree with equal confidences above 0, and the
\* function has returned
C19_Witness ==
    /\ unit = "confidence" /\ detection # None
    /\ ext_signal[1] # None /\ content_signal[1] # None
    /\ ext_signal[1] # content_signal[1]
    /\ ext_signal[2] = content_signal[2] /\ ext_signal[2] > 0
    /\ detection[1] = content_signal

-----------------------------------------------------------------------------
\* detect was called with a file name alone, and the table maps the
\* extension of the name to exactly one platform
UniqueExtensionAlone ==
    /\ unit = "detect" /\ detection # None
    /\ detect_content = None /\ detect_manual = None
    /\ lower(suffix(detect_file)) \in DOMAIN EXTENSION_WEIGHTS
    /\ Len(EXTENSION_WEIGHTS[lower(suffix(detect_file))]) = 1

TableEntry == EXTENSION_WEIGHTS[lower(suffix(detect_file))][1]

-----------------------------------------------------------------------------
\* detect has run detect_by_extension on the name of its file
ExtensionDetected == unit = "detect" /\ detection # None /\ ext_signal # None

\* the extension of the file's name is a key of the table
ExtensionKnown == lower(suffix(detect_file)) \in DOMAIN EXTENSION_WEIGHTS

ExtensionMap == EXTENSION_WEIGHTS[lower(suffix(detect_file))]

\* what detect_by_extension returned is an entry of the extension's map
\* that no entry of the map outweighs
MaximumWeightEntry ==
    /\ \E k \in 1..Len(ExtensionMap) :
          ext_signal = << <<ExtensionMap[k][1]>>, ExtensionMap[k][2] >>
    /\ \A k \in 1..Len(ExtensionMap) : ExtensionMap[k][2] <= ext_signal[2]

\* C21 as stated: an extension the table maps to exactly one platform has
\* weight 1.0, one it maps to several has weight at most 0.5 for each;
\* detect_by_extension returns the maximum-weight entry of the extension's
\* map, and (None, 0.0) for an unknown or absent extension.
C21_UniqueWeightOne ==
    ExtensionDetected =>
        IF ExtensionKnown
        THEN /\ MaximumWeightEntry
             /\ Len(ExtensionMap) = 1 => ExtensionMap[1][2] = 10000
             /\ Len(ExtensionMap) > 1 =>
                   \A k \in 1..Len(ExtensionMap) : ExtensionMap[k][2] <= 5000
        ELSE ext_signal = <<None, 0>>

\* C21, amended: an extension the table maps to exactly one platform has a
\* weight from 0.5 to 1.0, one it maps to several has weight at most 0.6
\* for each; detect_by_extension returns the maximum-weight entry of the
\* extension's map, and (None, 0.0) for an unknown or absent extension.
C21_UniqueWeightHalfToOne ==
    ExtensionDetected =>
        IF ExtensionKnown
        THEN /\ MaximumWeightEntry
             /\ Len(ExtensionMap) = 1 =>
                   ExtensionMap[1][2] >= 5000 /\ ExtensionMap[1][2] <= 10000
             /\ Len(ExtensionMap) > 1 =>
                   \A k \in 1..Len(ExtensionMap) : ExtensionMap[k][2] <= 6000
        ELSE ext_signal = <<None, 0>>

\* e.java, whose extension the table maps to android 0.6 and backend 0.3,
\* detected by its extension as android 0.6
C21_Witness ==
    /\ ExtensionDetected
    /\ detect_file = <<"e", ".", "j", "a", "v", "a">>
    /\ Len(ExtensionMap) = 2
    /\ ext_signal = << <<"android">>, 6000 >>

-----------------------------------------------------------------------------
\* C22: detect with a manual_platform that is one of the five recognized
\* platform names returns (manual_platform, 1.0) and runs neither the
\* extension nor the content detection, whatever the file path and the
\* content; with an unrecognized manual_platform it returns what it
\* returns for the same file path and content with no manual_platform.
C22_ManualOverrideOrAutoDetection ==
    (unit = "detect" /\ detection # None /\ detect_manual # None) =>
        IF detect_manual[1] \in {"android", "ios", "ai-ml", "frontend", "backend"}
        THEN /\ detection[1] = <<detect_manual, 10000>>
             /\ ext_signal = None
             /\ content_signal = None
        ELSE detection[1] = detect(detect_file, detect_content, None)

\* s.swift with an ios import as content, detected as android because
\* android was selected by hand; without the selection it is ios
C22_Witness ==
    /\ unit = "detect" /\ detection # None
    /\ detect_manual = <<"android">>
    /\ detect_file = <<"s", ".", "s", "w", "i", "f", "t">>
    /\ detect_content = <<weak_ios>>
    /\ detect(detect_file, detect_content, None)[1] = <<"ios">>
    /\ detection[1] = << <<"android">>, 10000 >>
    /\ ext_signal = None

-----------------------------------------------------------------------------
\* C28: the confidence calculate_confidence returns is at least the
\* confidence of every signal that names a platform; in particular, when
\* both signals name the same platform it is at least each of the two.
C28_AtLeastStrongestSignal ==
    (unit = "confidence" /\ detection # None) =>
        /\ ext_signal[1] # None => detection[1][2] >= ext_signal[2]
        /\ content_signal[1] # None => detection[1][2] >= content_signal[2]

-----------------------------------------------------------------------------
\* The names of the first n entries of the active list that the catalog
\* of the chain holds, in the order of the list
PresentUpTo(n) ==
    LET InCatalog(stage_name) == stage_name \in Range(_build_stages(chain_type))
    IN  SelectSeq(SubSeq(active_stages, 1, n), InCatalog)

\* C24: at every point of a call of _execute_stages that no stage has
\* ended by raising, the stages invoked so far are the names of the active
\* list passed so far that the catalog holds, each once for each place it
\* has on the list and in the order of the list, and the context holds a
\* "<name>_result" key for these names and for no other; so a name the
\* catalog lacks causes no invocation, no error and no key.
C24_InvokesPresentNamesInListOrder ==
    (unit = "chain" /\ chain_pc = "stages") =>
        /\ invoked = PresentUpTo(stage_index - 1)
        /\ exception = None
        /\ { context[i][1] : i \in 3..Len(context) } =
              { ResultKey(invoked[k]) : k \in DOMAIN invoked }

\* the android chain has come to the end of the list improvements,
\* nonexistent_stage, architecture: it invoked improvements, then
\* architecture, against the order of its catalog
C24_Witness ==
    /\ unit = "chain" /\ chain_pc = "stages" /\ chain_type = "android"
    /\ active_stages = <<"improvements", "nonexistent_stage", "architecture">>
    /\ stage_index = 4
    /\ invoked = <<"improvements", "architecture">>
    /\ Len(context) = 4

-----------------------------------------------------------------------------
\* The text a stage produced: what its output holds under the output key
\* "<stage_name>_result" the stage was configured with, or under "text"
\* when the output has no such key
Produced(stage_name, output) ==
    IF ResultKey(stage_name) \in DOMAIN output
    THEN output[ResultKey(stage_name)]
    ELSE Get(output, <<"text">>, no_text)

\* C25: while _execute_stages runs, the context holds the original code
\* and file_path and then, for exactly the stages invoked so far and in
\* their order, the text the stage produced under "<stage_name>_result";
\* what an earlier stage left there is still there, unchanged, after every
\* later stage.
C25_ContextThreading ==
    (unit = "chain" /\ chain_pc = "stages") =>
        /\ Len(context) = 2 + Len(emitted)
        /\ context[1] = << <<"code">>, <<"source">> >>
        /\ context[2] = << <<"file_path">>, chain_file >>
        /\ \A k \in DOMAIN emitted :
              context[2 + k] =
                 <<ResultKey(invoked[k]), Produced(invoked[k], emitted[k])>>

-----------------------------------------------------------------------------
\* C26: the list _deduplicate returns holds no two distinct findings that
\* _are_similar holds of, the one with the other, whatever the input list
\* and its order, also when a kept finding was replaced during the scan by
\* a duplicate of higher severity.
C26_NoSimilarPairInOutput ==
    (unit = "synthesis" /\ deduplicated # None) =>
        \A i, j \in DOMAIN deduplicated[1] :
           (i # j /\ deduplicated[1][i] # deduplicated[1][j]) =>
              ~(/\ _are_similar(deduplicated[1][i], deduplicated[1][j])
                /\ _are_similar(deduplicated[1][j], deduplicated[1][i]))

-----------------------------------------------------------------------------
\* the (category, file_path) pairs of the findings of a list
IssuePairs(list) == { <<list[k].category, list[k].file_path>> : k \in DOMAIN list }

\* the ranks, by SEVERITY_ORDER, of the severities a list holds
SeverityRanks(list) == { SEVERITY_ORDER[list[k].severity] : k \in DOMAIN list }

\* C27: for every finding f of the input, the list _deduplicate returns
\* holds a finding of f's category and file_path whose severity is f's or
\* one of higher priority; so the (category, file_path) pairs and the
\* highest severity present are the same in the input and the output.
C27_WorstSeverityKept ==
    (unit = "synthesis" /\ deduplicated # None) =>
        /\ \A k \in DOMAIN findings :
              \E o \in DOMAIN deduplicated[1] :
                 /\ deduplicated[1][o].category = findings[k].category
                 /\ deduplicated[1][o].file_path = findings[k].file_path
                 /\ SEVERITY_ORDER[deduplicated[1][o].severity]
                       <= SEVERITY_ORDER[findings[k].severity]
        /\ IssuePairs(deduplicated[1]) = IssuePairs(findings)
        /\ \A r \in SeverityRanks(findings) :
              \E q \in SeverityRanks(deduplicated[1]) : q <= r
        /\ SeverityRanks(deduplicated[1]) \subseteq SeverityRanks(findings)

\* a LOW finding, then a HIGH one at the same place with the same text: the
\* scan replaced the LOW one, and the output is the HIGH one alone
C27_Witness ==
    /\ unit = "synthesis" /\ deduplicated # None
    /\ findings = << Finding("LOW", bug, a_kt, <<10>>, aaabaa),
                     Finding("HIGH", bug, a_kt, <<10>>, aaabaa) >>
    /\ deduplicated[1] = << Finding("HIGH", bug, a_kt, <<10>>, aaabaa) >>

-----------------------------------------------------------------------------
\* a call of invoke with a prompt that is not empty
PromptGiven == unit = "client" /\ ~EmptyPrompt(llm_prompt)

\* at most 3 attempts were made against the model; none followed an attempt
\* that yielded a string; invoke has returned exactly when the last attempt
\* yielded a string, and has raised exactly when the third attempt failed,
\* with that attempt's error, a RateLimitError or an APIError
WithinThreeAttempts ==
    /\ Len(attempt_log) <= 3
    /\ \A k \in 1..(Len(attempt_log) - 1) : ~ReturnsString(attempt_log[k])
    /\ llm_pc = "returned" <=>
          (attempt_log # <<>> /\ ReturnsString(attempt_log[Len(attempt_log)]))
    /\ llm_pc = "raised" <=>
          (Len(attempt_log) = 3 /\ ~ReturnsString(attempt_log[3]))
    /\ llm_pc = "raised" =>
          /\ llm_outcome[1].raises \in {"RateLimitError", "APIError"}
          /\ llm_outcome[1].raises = AttemptError(attempt_log[3])

\* C23: one call of LLMClient.invoke with a prompt that is not empty ends,
\* after at most 3 attempts against the model: it returns at the first
\* attempt that yields a string and makes no further attempt, and after a
\* third failed attempt it raises that attempt's error, a RateLimitError
\* or an APIError, instead of trying again.
C23_EndsWithinThreeAttempts ==
    /\ [](PromptGiven => WithinThreeAttempts)
    /\ <>(PromptGiven => llm_pc \in {"returned", "raised"})

\* two attempts failed, one for the rate limit and one for another reason,
\* and the third yielded a string: invoke returned it
C23_Witness ==
    /\ PromptGiven
    /\ Len(attempt_log) = 3
    /\ AttemptError(attempt_log[1]) = "RateLimitError"
    /\ AttemptError(attempt_log[2]) = "APIError"
    /\ ReturnsString(attempt_log[3])
    /\ llm_pc = "returned"
    /\ llm_outcome = <<[returns |-> "text"]>>

-----------------------------------------------------------------------------
\* The places of the file sections of the diff: a "---" line with a "+++"
\* line after it
SectionStarts ==
    { k \in 1..(Len(diff_lines) - 1) :
        diff_lines[k].mark = "---" /\ diff_lines[k + 1].mark = "+++" }

\* The path the "+++" line at place k names
NamedPath(k) ==
    LET stripped == strip(Tail(diff_lines[k].body))
    IN  IF stripped # <<>> /\ Head(stripped) = "b/" THEN Tail(stripped) ELSE stripped

\* The n-th of a set of places, in their order
RECURSIVE Nth(_, _)
Nth(places, n) ==
    LET first == CHOOSE k \in places : \A o \in places : k <= o
    IN  IF n = 1 THEN first ELSE Nth(places \ {first}, n - 1)

\* C29: parse returns exactly one ParsedDiff for every file section of the
\* input, in the order of the input, wherever the section stands in the
\* diff and whether or not it holds added lines.
C29_OneParsedDiffPerSection ==
    (unit = "diff" /\ diff_pc = "returned") =>
        /\ Len(diff_parser.results) = Cardinality(SectionStarts)
        /\ \A n \in 1..Len(diff_parser.results) :
              diff_parser.results[n].file_path = NamedPath(Nth(SectionStarts, n) + 1)

-----------------------------------------------------------------------------
\* The place of the file section that names file_path
SectionOf(file_path) ==
    CHOOSE k \in SectionStarts : NamedPath(k + 1) = file_path

\* The place where the section after the one at place k begins, at its
\* "---" line or at a line git wrote before it; past the end when the
\* section is the last
SectionEnd(k) ==
    LET later == { o \in (k + 2)..Len(diff_lines) :
                     \/ diff_lines[o].mark = "---"
                     \/ diff_lines[o].mark = "" /\ diff_lines[o].body # <<>> }
    IN  IF later = {} THEN Len(diff_lines) + 1
        ELSE CHOOSE o \in later : \A q \in later : o <= q

\* The lines inside the hunks of the section at place k: after its first
\* "@@" line and before the next section begins, hunk headers left out
OwnHunkLines(k) ==
    LET headers == { o \in (k + 2)..(SectionEnd(k) - 1) : diff_lines[o].mark = "@@" }
        InHunk(line) == line.mark \in {"+", "-", " "}
    IN  IF headers = {} THEN <<>>
        ELSE SelectSeq(SubSeq(diff_lines,
                              CHOOSE o \in headers : \A q \in headers : o <= q,
                              SectionEnd(k) - 1),
                       InHunk)

\* The texts of the lines of the given mark among the given lines
Bodies(lines, mark) ==
    LET Marked(line) == line.mark = mark
        marked == SelectSeq(lines, Marked)
    IN  [i \in DOMAIN marked |-> marked[i].body]

Contents(changes) == [i \in DOMAIN changes |-> changes[i].content]

\* C30: in every ParsedDiff parse returns, the added, removed and context
\* lists hold the lines inside the file's own hunks and no other: no line
\* git wrote before the "---" line of the next file (diff --git, index) is
\* recorded as a change of the file before it, and no line is recorded
\* for a file before its first hunk header.
C30_OnlyOwnHunkLinesRecorded ==
    (unit = "diff" /\ diff_pc = "returned") =>
        \A n \in DOMAIN diff_parser.results :
           LET parsed == diff_parser.results[n]
               own == OwnHunkLines(SectionOf(parsed.file_path))
           IN  /\ Contents(parsed.added) = Bodies(own, "+")
               /\ Contents(parsed.removed) = Bodies(own, "-")
               /\ Contents(parsed.context) = Bodies(own, " ")

====
